---- MODULE Spec2Model ----
(***************************************************************************)
(* pfsense-toggle: the access reconciliation engine of src/server.js.      *)
(*                                                                         *)
(* The Node process is single-threaded: a handler runs without             *)
(* interruption from one `await` of a collaborator call to the next.  One  *)
(* action of this module is one such run: it takes the answer of the call  *)
(* the task was waiting for, executes the synchronous code that follows,   *)
(* and ends by issuing the next call (whose effect on the collaborator is  *)
(* applied when it is issued) or by returning.                             *)
(*                                                                         *)
(* Time is counted in minutes since a Sunday 00:00 local time.             *)
(***************************************************************************)
EXTENDS Integers, Sequences, FiniteSets, TLC

\* ------------------------------------------------------------------ bounds
\* Minutes the clock may advance past StartNow.
MaxAdvance == 3
\* setTimeout handles that may be created in one behaviour.
MaxTimeouts == 2
\* Audit-log length up to which a new request may still start.
MaxLog == 2
\* Concurrent timed-allow requests.
NumTa == 2
\* Concurrent runs of enforceSchedules.
NumTicks == 1
\* Concurrent runs of blockKidNow.
NumBk == 2
\* Entries logged in a run that starts from a loaded audit log.
MaxLogged == 3
\* Runs of enforceSchedules that overlap.
NumOverlap == 2
\* Concurrent add-device and remove-device requests.
NumDev == 2
\* Fetch events the service worker answers at once.
NumFetch == 2

\* ------------------------------------------------------------- constants
MinutesPerDay == 24 * 60
Null == 0 - 1
\* Monday 07:59
StartNow == MinutesPerDay + 7 * 60 + 59
Horizon == StartNow + MaxAdvance

\* CONFIG.HOME_RULES entries used by the specifications
KidA == [tracker |-> 1, name |-> "Ann"]
KidB == [tracker |-> 2, name |-> "Bob"]
Trackers == {KidA.tracker, KidB.tracker}

\* A schedule window {days:[1], start:'08:00', end:'08:02'}
WinMon == [days |-> {1}, start |-> <<8, 0>>, end |-> <<8, 2>>]

\* Raw `minutes` values of a request body: a number with or without a
\* fractional part, or something that is not a number.
NotANumber == [nan |-> TRUE, whole |-> 0, frac |-> FALSE]
Num(n) == [nan |-> FALSE, whole |-> n, frac |-> FALSE]
NumAndHalf(n) == [nan |-> FALSE, whole |-> n, frac |-> TRUE]
RawMinutes == {NotANumber, Num(0), Num(1), Num(2), Num(121), NumAndHalf(0), NumAndHalf(120)}

VARIABLES
  now,             \* Date.now(), in minutes
  homeRules,       \* CONFIG.HOME_RULES
  scheduleConfig,  \* tracker -> [enabled, windows]
  fwRules,         \* pfSense: tracker -> [present, disabled]
  unifiUrl,        \* CONFIG.UNIFI_URL is set
  kidKnownMacs,    \* tracker -> set of MACs
  kidBlockedMacs,  \* tracker -> set of MACs
  activeTimers,    \* tracker -> NoTimer or [timeoutId, endTime, kidName]
  timeouts,        \* pending setTimeout handles [id, tracker, due]
  nextTimeoutId,   \* the id the next setTimeout returns
  activeSkips,     \* tracker -> Null or skipUntil
  actionLog,       \* newest first
  faults,          \* collaborator calls may fail
  tick,            \* running enforceSchedules() calls
  ta,              \* running timed-allow requests
  aat,             \* the running allow-all-timed request
  bk,              \* running blockKidNow() calls
  manual,          \* the toggle, allow-all or block-all request in flight
  aliases,         \* pfSense: tracker -> the address list of the kid's alias
  dev,             \* running add-device and remove-device requests
  swState,         \* the service worker: "parsed" or "activated"
  cache,           \* the URLs with a response stored in the cache 'kidsnet-v1'
  fetchEvents,     \* fetch events the service worker is answering
  swAnswer,        \* the last answer a page got to a request
  reply            \* the last HTTP response sent

vars == <<now, homeRules, scheduleConfig, fwRules, unifiUrl, kidKnownMacs,
          kidBlockedMacs, activeTimers, timeouts, nextTimeoutId, activeSkips,
          actionLog, faults, tick, ta, aat, bk, manual, aliases, dev,
          swState, cache, fetchEvents, swAnswer, reply>>

\* The alias of a kid and the device requests: only the device routes
\* (lines 727-774) write them.
aliasVars == <<aliases, dev>>
\* The service worker of the pages (public/sw.js): it runs in the browser.
swVars == <<swState, cache, fetchEvents, swAnswer>>
configVars == <<homeRules, unifiUrl, faults, aliasVars, swVars>>
unifiVars == <<kidKnownMacs, kidBlockedMacs>>
timerVars == <<activeTimers, timeouts, nextTimeoutId>>

\* ------------------------------------------------------ schedule evaluator
\* timeToMinutes without the minutes of line 106.
TimeToMinutesHoursOnly(t) == t[1] * 60

TimeToMinutes(t) == t[1] * 60 + t[2]

Weekday(t) == (t \div MinutesPerDay) % 7
MinuteOfDay(t) == t % MinutesPerDay
DayStart(t) == t - MinuteOfDay(t)

\* The loop of lines 120-130 without the comparison of line 128: the end of
\* the last window matching now.
CurrentWindowEndLast(wins, t) ==
  LET RECURSIVE Scan(_, _)
      Scan(i, acc) ==
        IF i > Len(wins) THEN acc
        ELSE IF /\ Weekday(t) \in wins[i].days
                /\ MinuteOfDay(t) >= TimeToMinutes(wins[i].start)
                /\ MinuteOfDay(t) < TimeToMinutes(wins[i].end)
             THEN Scan(i + 1, DayStart(t) + TimeToMinutes(wins[i].end))
             ELSE Scan(i + 1, acc)
  IN Scan(1, Null)

\* The loop of lines 120-130: the latest end among the windows matching now.
CurrentWindowEnd(wins, t) ==
  LET RECURSIVE Scan(_, _)
      Scan(i, acc) ==
        IF i > Len(wins) THEN acc
        ELSE LET win == wins[i]
                 startMin == TimeToMinutes(win.start)
                 endMin == TimeToMinutes(win.end)
                 d == DayStart(t) + endMin
             IN IF /\ Weekday(t) \in win.days
                   /\ MinuteOfDay(t) >= startMin
                   /\ MinuteOfDay(t) < endMin
                   /\ (acc = Null \/ d > acc)
                THEN Scan(i + 1, d)
                ELSE Scan(i + 1, acc)
  IN Scan(1, Null)

\* The loops of lines 137-157 without line 143: a window of today that has
\* started already counts as upcoming.
NextWindowKeepsPassed(wins, t) ==
  LET RECURSIVE Wins(_, _, _)
      Wins(offset, i, acc) ==
        IF i > Len(wins) THEN acc
        ELSE LET win == wins[i]
                 checkDay == (Weekday(t) + offset) % 7
                 startMin == TimeToMinutes(win.start)
                 endMin == TimeToMinutes(win.end)
                 d == DayStart(t) + offset * MinutesPerDay + startMin
             IN IF checkDay \notin win.days THEN Wins(offset, i + 1, acc)
                ELSE IF acc[1] = Null \/ d < acc[1]
                     THEN Wins(offset, i + 1, <<d, DayStart(d) + endMin>>)
                     ELSE Wins(offset, i + 1, acc)
      RECURSIVE Days(_)
      Days(offset) ==
        IF offset >= 7 THEN <<Null, Null>>
        ELSE LET found == Wins(offset, 1, <<Null, Null>>)
             IN IF found[1] # Null THEN found ELSE Days(offset + 1)
  IN Days(0)

\* The loops of lines 137-157: <<nextStart, nextEnd>> of the earliest window
\* that starts within the next 7 days, or <<Null, Null>>.
NextWindow(wins, t) ==
  LET RECURSIVE Wins(_, _, _)
      Wins(offset, i, acc) ==
        IF i > Len(wins) THEN acc
        ELSE LET win == wins[i]
                 checkDay == (Weekday(t) + offset) % 7
                 startMin == TimeToMinutes(win.start)
                 endMin == TimeToMinutes(win.end)
                 d == DayStart(t) + offset * MinutesPerDay + startMin
             IN IF checkDay \notin win.days THEN Wins(offset, i + 1, acc)
                ELSE IF offset = 0 /\ startMin <= MinuteOfDay(t) THEN Wins(offset, i + 1, acc)
                ELSE IF acc[1] = Null \/ d < acc[1]
                     THEN Wins(offset, i + 1, <<d, DayStart(d) + endMin>>)
                     ELSE Wins(offset, i + 1, acc)
      RECURSIVE Days(_)
      Days(offset) ==
        IF offset >= 7 THEN <<Null, Null>>
        ELSE LET found == Wins(offset, 1, <<Null, Null>>)
             IN IF found[1] # Null THEN found ELSE Days(offset + 1)
  IN Days(0)

ComputeScheduleInfoAt(config, t) ==
  IF ~config.enabled \/ Len(config.windows) = 0
  THEN [enabled |-> config.enabled, active |-> FALSE, windowEnd |-> Null,
        nextStart |-> Null, nextEnd |-> Null]
  ELSE LET windowEndMs == CurrentWindowEnd(config.windows, t)
           next == NextWindow(config.windows, t)
       IN IF windowEndMs # Null
          THEN [enabled |-> TRUE, active |-> TRUE, windowEnd |-> windowEndMs,
                nextStart |-> Null, nextEnd |-> Null]
          ELSE [enabled |-> TRUE, active |-> FALSE, windowEnd |-> Null,
                nextStart |-> next[1], nextEnd |-> next[2]]

computeScheduleInfo(tracker) == ComputeScheduleInfoAt(scheduleConfig[tracker], now)

\* `skipUntil && Date.now() < skipUntil`
SkipActive(tracker) == activeSkips[tracker] # Null /\ now < activeSkips[tracker]

\* ------------------------------------------------------------ audit log
LogCap == 1000

\* logAction making room behind the new entry: the newest old entry goes.
logActionDropsNewest(log, action, kid) ==
  LET l == <<[action |-> action, kid |-> kid]>> \o log
  IN IF Len(l) > LogCap THEN <<l[1]>> \o SubSeq(l, 3, LogCap + 1) ELSE l

logAction(log, action, kid) ==
  LET l == <<[action |-> action, kid |-> kid]>> \o log
  IN IF Len(l) > LogCap THEN SubSeq(l, 1, LogCap) ELSE l

\* -------------------------------------------------------- collaborators
\* The answers a collaborator call may give: TRUE is success.
Outcomes == IF faults THEN {TRUE, FALSE} ELSE {TRUE}

\* One entry of a task's record of the calls it has issued so far.
Call(op, tracker, ok) == [op |-> op, kid |-> tracker, ok |-> ok]

KidIndexes == 1..Len(homeRules)
Configured == {homeRules[i].tracker : i \in KidIndexes}
ConfigRule(tracker) == homeRules[CHOOSE i \in KidIndexes : homeRules[i].tracker = tracker]
\* logAction's `kid || null`
NoKid == ""

\* The pfSense rule list as GET /api/v2/firewall/rules returns it.
RulePresent(rules, tracker) == rules[tracker].present
\* A PATCH that flips `disabled` instead of setting it.
PatchRuleFlips(rules, tracker, disabled, ok) ==
  IF ok THEN [rules EXCEPT ![tracker].disabled = ~@] ELSE rules

\* PATCH /api/v2/firewall/rule {id, disabled}
PatchRule(rules, tracker, disabled, ok) ==
  IF ok THEN [rules EXCEPT ![tracker].disabled = disabled] ELSE rules

\* ---------------------------------------------------------------- UniFi
\* The addresses of a kid's alias, the client UniFi lists at an address, and a
\* device of the kid that was seen in the past and is not associated now.
SourceIPs(tracker) == {10 + tracker, 20 + tracker}
ClientMac(ip) == 100 + ip
OfflineMac(tracker) == 200 + tracker
\* settings.json lists the kid's second device as excluded (lines 48-50).
unifiExcludedMacs == {ClientMac(20 + k) : k \in Trackers}

\* learnMacs storing the MACs seen now in place of the set (line 358 on a new set).
learnMacsReplaces(known, tracker, macs) ==
  [known EXCEPT ![tracker] = macs \ unifiExcludedMacs]

learnMacs(known, tracker, macs) ==
  LET filtered == macs \ unifiExcludedMacs
  IN [known EXCEPT ![tracker] = @ \cup filtered]

\* resolveSourceIPs: the addresses of the alias, or none when the alias fetch
\* fails or the rule has no source.
ResolvedIPs(tracker, okAlias) == IF okAlias THEN SourceIPs(tracker) ELSE {}

\* Lines 389-390 and 425-426: the MACs of the clients listed at the addresses.
OnlineMacs(ips, okClients) == IF okClients THEN {ClientMac(ip) : ip \in ips} ELSE {}

\* Lines 387-391: the known MACs after the client query of unifiBlockKid.
KnownAfterBlock(tracker, okAlias, okClients) ==
  IF okClients
  THEN learnMacs(kidKnownMacs, tracker, OnlineMacs(ResolvedIPs(tracker, okAlias), okClients))
  ELSE kidKnownMacs

\* Line 394 without its filter: every known MAC is sent a block command.
BlockTargetsUnfiltered(tracker, okAlias, okClients) ==
  IF ~unifiUrl \/ ResolvedIPs(tracker, okAlias) = {} THEN {}
  ELSE KnownAfterBlock(tracker, okAlias, okClients)[tracker]

\* Lines 382-394: the MACs unifiBlockKid sends a block command for.
BlockTargets(tracker, okAlias, okClients) ==
  IF ~unifiUrl \/ ResolvedIPs(tracker, okAlias) = {} THEN {}
  ELSE KnownAfterBlock(tracker, okAlias, okClients)[tracker] \ unifiExcludedMacs

\* Line 406 without its test: the blocked MACs are stored also when none is.
StoreBlockedAlways(blocked) == TRUE

\* Line 406: `if (blocked.length)`.
StoreBlocked(blocked) == blocked # {}

\* unifiBlockKid, as one step: the alias fetch answers `okAlias`, the client
\* query `okClients`, and the block commands of the MACs in `okMacs` succeed.
UnifiBlockKid(tracker, okAlias, okClients, okMacs) ==
  IF ~unifiUrl \/ ResolvedIPs(tracker, okAlias) = {}
  THEN UNCHANGED unifiVars
  ELSE LET allMacs == BlockTargets(tracker, okAlias, okClients)
           blocked == allMacs \cap okMacs
       IN /\ kidKnownMacs' = KnownAfterBlock(tracker, okAlias, okClients)
          /\ kidBlockedMacs' = IF allMacs # {} /\ StoreBlocked(blocked)
                               THEN [kidBlockedMacs EXCEPT ![tracker] = blocked]
                               ELSE kidBlockedMacs

\* Lines 415-418 without line 417: the blocked MACs only.
UnblockCachedBlockedOnly(tracker) == kidBlockedMacs[tracker] \ unifiExcludedMacs

\* Lines 415-418: the cached MACs unifiUnblockKid starts from.
UnblockCached(tracker) ==
  (kidBlockedMacs[tracker] \cup kidKnownMacs[tracker]) \ unifiExcludedMacs

\* Lines 415-430: the MACs unifiUnblockKid sends an unblock command for.
UnblockTargets(tracker, okAlias, okClients) ==
  IF ~unifiUrl THEN {}
  ELSE IF UnblockCached(tracker) # {} THEN UnblockCached(tracker)
  ELSE OnlineMacs(ResolvedIPs(tracker, okAlias), okClients)

\* unifiUnblockKid, as one step.
UnifiUnblockKid(tracker, okAlias, okClients) ==
  /\ kidKnownMacs' = kidKnownMacs
  /\ kidBlockedMacs' = IF UnblockTargets(tracker, okAlias, okClients) = {}
                       THEN kidBlockedMacs
                       ELSE [kidBlockedMacs EXCEPT ![tracker] = {}]

\* The last wireless call of a task: the commands it sent, those that
\* succeeded, and whether it looked the kid's addresses up.
NoWifi == [op |-> "", kid |-> 0, macs |-> {}, done |-> {}, lookup |-> FALSE]
Wifi(op, tracker, macs, done, lookup) ==
  [op |-> op, kid |-> tracker, macs |-> macs, done |-> done, lookup |-> lookup]

\* The sets of block commands that may succeed.
BlockDone(tracker, okAlias, okClients) ==
  IF faults THEN SUBSET BlockTargets(tracker, okAlias, okClients)
  ELSE {BlockTargets(tracker, okAlias, okClients)}

WifiBlock(tracker, okAlias, okClients, okMacs) ==
  Wifi("block", tracker, BlockTargets(tracker, okAlias, okClients),
       BlockTargets(tracker, okAlias, okClients) \cap okMacs, unifiUrl)

WifiUnblock(tracker, okAlias, okClients) ==
  Wifi("unblock", tracker, UnblockTargets(tracker, okAlias, okClients), {},
       unifiUrl /\ UnblockCached(tracker) = {})

\* ---------------------------------------------------- model budgets
\* Timers that requests in flight will still create.
TimersToCome ==
  Cardinality({j \in DOMAIN ta : ta[j].pc # "idle"})
  + (IF aat.pc # "idle" THEN Len(homeRules) ELSE 0)
TimerBudget(n) == (nextTimeoutId - 1) + TimersToCome + n <= MaxTimeouts
LogBudget == Len(actionLog) < MaxLog
\* A periodic tick may still start with the log one entry longer.
TickBudget == Len(actionLog) <= MaxLog

\* ------------------------------------------------------------- the tick
\* enforceSchedules(), lines 529-598.
\* The runs of enforceSchedules that may be under way at once.
TickIds == DOMAIN tick

IdleTick == [pc |-> "idle", ok |-> TRUE, allRules |-> <<>>, idx |-> 0, dir |-> "",
             needsApply |-> FALSE, toKill |-> <<>>, kidx |-> 0, wifi |-> NoWifi,
             trace |-> <<>>]

\* enforceSchedules without lines 532-534.
PruneSkipsNone(skips) == skips

\* Lines 532-534.
PruneSkips(skips) ==
  [k \in DOMAIN skips |-> IF skips[k] # Null /\ now >= skips[k] THEN Null ELSE skips[k]]

\* The first run without the test of lines 537-540: the error is taken for a
\* rule list.
TickStartedIgnoresError(ok) ==
  [IdleTick EXCEPT !.pc = "rules", !.ok = TRUE, !.allRules = fwRules,
                   !.trace = <<Call("rules", 0, ok)>>]

\* The first run of enforceSchedules: it ends at the rule fetch of line 536.
TickStarted(ok) ==
  [IdleTick EXCEPT !.pc = "rules", !.ok = ok,
                   !.allRules = IF ok THEN fwRules ELSE <<>>,
                   !.trace = <<Call("rules", 0, ok)>>]

HasIdleTick == \E t \in TickIds : tick[t].pc = "idle"
FreeTick == CHOOSE t \in TickIds : tick[t].pc = "idle" /\ \A u \in 1..(t - 1) : tick[u].pc # "idle"

\* The PATCH bodies of lines 566 and 574 with their values exchanged.
DisabledForInverted(allow) == ~allow

\* Lines 566 and 574: the `disabled` value the tick writes to allow the kid
\* (disabled: true) or to block the kid (disabled: false).
DisabledFor(allow) == allow

\* Line 562 without its `!skipActive`.
shouldBeAllowedNoSkip(tracker) == computeScheduleInfo(tracker).active

\* Line 562: the desired state of a kid the tick looks at.
shouldBeAllowed(tracker) == computeScheduleInfo(tracker).active /\ ~SkipActive(tracker)

\* Lines 547-572 without the `if (!info.enabled) continue` of line 550.
NeedsCorrectionIgnoresEnabled(tracker, allRules) ==
  /\ activeTimers[tracker].timeoutId = Null
  /\ RulePresent(allRules, tracker)
  /\ shouldBeAllowed(tracker) # allRules[tracker].disabled

\* Lines 547-572: the kid is corrected in this pass of the loop.
NeedsCorrection(tracker, allRules) ==
  /\ activeTimers[tracker].timeoutId = Null
  /\ computeScheduleInfo(tracker).enabled
  /\ RulePresent(allRules, tracker)
  /\ shouldBeAllowed(tracker) # allRules[tracker].disabled

\* The first kid at or after position `from` that the loop corrects, or 0.
NextCorrection(from, allRules) ==
  LET hits == {i \in from..Len(homeRules) : NeedsCorrection(homeRules[i].tracker, allRules)}
  IN IF hits = {} THEN 0 ELSE CHOOSE i \in hits : \A j \in hits : i <= j

\* Line 588 without its test.
ApplyAlways(rec) == TRUE

\* Line 588: `if (needsApply)`.
ApplyNeeded(rec) == rec.needsApply

\* The loop of lines 545-586 from position `from` on, up to its next await,
\* and the code after the loop (lines 588-594) when the loop ends.
TickLoop(t, rec, from) ==
  LET i == NextCorrection(from, rec.allRules)
      tracker == homeRules[i].tracker
      allow == shouldBeAllowed(tracker)
  IN IF i # 0
     THEN \E ok \in Outcomes :
            /\ fwRules' = PatchRule(fwRules, tracker, DisabledFor(allow), ok)
            /\ tick' = [tick EXCEPT ![t] =
                 [rec EXCEPT !.pc = "patch", !.ok = ok, !.idx = i,
                             !.dir = IF allow THEN "allow" ELSE "block",
                             !.trace = Append(@, Call(IF allow THEN "patch-allow" ELSE "patch-block", tracker, ok))]]
     ELSE /\ fwRules' = fwRules
          /\ tick' = [tick EXCEPT ![t] =
               IF ApplyNeeded(rec)
               THEN [rec EXCEPT !.pc = "apply", !.trace = Append(@, Call("apply", 0, TRUE))]
               ELSE IdleTick]

\* The first run of a periodic tick (setInterval, line 1203) or of the tick at
\* startup (line 1200): lines 532-536.
TickStart ==
  /\ HasIdleTick
  /\ activeSkips' = PruneSkips(activeSkips)
  /\ \E ok \in Outcomes : tick' = [tick EXCEPT ![FreeTick] = TickStarted(ok)]
  /\ UNCHANGED <<now, configVars, scheduleConfig, fwRules, unifiVars, timerVars,
                 actionLog, ta, aat, bk, manual, reply>>

TickBegin == TickBudget /\ TickStart

\* Lines 537-545: the rule list has arrived.
TickRules(t) ==
  /\ tick[t].pc = "rules"
  /\ IF ~tick[t].ok
     THEN tick' = [tick EXCEPT ![t] = IdleTick] /\ fwRules' = fwRules
     ELSE TickLoop(t, tick[t], 1)
  /\ UNCHANGED <<now, configVars, scheduleConfig, unifiVars, timerVars, activeSkips,
                 actionLog, ta, aat, bk, manual, reply>>

\* Lines 567-571: the PATCH that allows the kid has returned.
TickPatchedAllow(t) ==
  LET rec == tick[t]
      kid == homeRules[rec.idx]
  IN /\ rec.pc = "patch" /\ rec.dir = "allow"
     /\ actionLog' = logAction(actionLog, "schedule-allow", kid.name)
     /\ \E okAlias \in Outcomes, okClients \in Outcomes :
          /\ UnifiUnblockKid(kid.tracker, okAlias, okClients)
          /\ tick' = [tick EXCEPT ![t] =
               [rec EXCEPT !.pc = "unblock", !.needsApply = TRUE,
                           !.wifi = WifiUnblock(kid.tracker, okAlias, okClients),
                           !.trace = Append(Append(@, Call("notify", kid.tracker, TRUE)),
                                            Call("unifi-unblock", kid.tracker, TRUE))]]
     /\ UNCHANGED <<now, configVars, scheduleConfig, fwRules, timerVars, activeSkips,
                    ta, aat, bk, manual, reply>>

\* unifiUnblockKid has returned: the loop goes on with the next kid.
TickUnblocked(t) ==
  /\ tick[t].pc = "unblock"
  /\ TickLoop(t, tick[t], tick[t].idx + 1)
  /\ UNCHANGED <<now, configVars, scheduleConfig, unifiVars, timerVars, activeSkips,
                 actionLog, ta, aat, bk, manual, reply>>

\* Lines 575-584 leaving enforceSchedules when the PATCH has failed.
TickPatchedBlockAborts(t) ==
  LET rec == tick[t]
      kid == homeRules[rec.idx]
  IN /\ rec.pc = "patch" /\ rec.dir = "block"
     /\ IF rec.ok
        THEN /\ actionLog' = logAction(actionLog, "schedule-block", kid.name)
             /\ TickLoop(t, [rec EXCEPT !.needsApply = TRUE,
                                        !.toKill = Append(@, kid.tracker),
                                        !.trace = Append(@, Call("notify", kid.tracker, TRUE))],
                         rec.idx + 1)
        ELSE /\ tick' = [tick EXCEPT ![t] = IdleTick]
             /\ UNCHANGED <<actionLog, fwRules>>
     /\ UNCHANGED <<now, configVars, scheduleConfig, unifiVars, timerVars, activeSkips,
                    ta, aat, bk, manual, reply>>

\* Lines 575-584 with the kill of line 591 issued inside the loop.
TickPatchedBlockKillsAtOnce(t) ==
  LET rec == tick[t]
      kid == homeRules[rec.idx]
  IN /\ rec.pc = "patch" /\ rec.dir = "block"
     /\ actionLog' = logAction(actionLog, "schedule-block", kid.name)
     /\ TickLoop(t, [rec EXCEPT !.needsApply = TRUE,
                                !.toKill = Append(@, kid.tracker),
                                !.trace = Append(Append(@, Call("notify", kid.tracker, TRUE)),
                                                 Call("kill", kid.tracker, TRUE))],
                 rec.idx + 1)
     /\ UNCHANGED <<now, configVars, scheduleConfig, unifiVars, timerVars, activeSkips,
                    ta, aat, bk, manual, reply>>

\* Lines 575-584: the PATCH that blocks the kid has returned.
TickPatchedBlock(t) ==
  LET rec == tick[t]
      kid == homeRules[rec.idx]
  IN /\ rec.pc = "patch" /\ rec.dir = "block"
     /\ actionLog' = logAction(actionLog, "schedule-block", kid.name)
     /\ TickLoop(t, [rec EXCEPT !.needsApply = TRUE,
                                !.toKill = Append(@, kid.tracker),
                                !.trace = Append(@, Call("notify", kid.tracker, TRUE))],
                 rec.idx + 1)
     /\ UNCHANGED <<now, configVars, scheduleConfig, unifiVars, timerVars, activeSkips,
                    ta, aat, bk, manual, reply>>

\* Lines 590-591: the apply has returned, or the wireless block of the kid before.
TickKill(t) ==
  LET rec == tick[t]
  IN /\ rec.pc \in {"apply", "block"}
     /\ tick' = [tick EXCEPT ![t] =
          IF rec.kidx < Len(rec.toKill)
          THEN [rec EXCEPT !.pc = "kill", !.kidx = @ + 1,
                           !.trace = Append(@, Call("kill", rec.toKill[rec.kidx + 1], TRUE))]
          ELSE IdleTick]
     /\ UNCHANGED <<now, configVars, scheduleConfig, fwRules, unifiVars, timerVars,
                    activeSkips, actionLog, ta, aat, bk, manual, reply>>

\* Line 592: killStatesForSource has returned.
TickBlock(t) ==
  LET rec == tick[t]
      tracker == rec.toKill[rec.kidx]
  IN /\ rec.pc = "kill"
     /\ \E okAlias \in Outcomes, okClients \in Outcomes :
          \E okMacs \in BlockDone(tracker, okAlias, okClients) :
            /\ UnifiBlockKid(tracker, okAlias, okClients, okMacs)
            /\ tick' = [tick EXCEPT ![t] =
                 [rec EXCEPT !.pc = "block",
                             !.wifi = WifiBlock(tracker, okAlias, okClients, okMacs),
                             !.trace = Append(@, Call("unifi-block", tracker, TRUE))]]
     /\ UNCHANGED <<now, configVars, scheduleConfig, fwRules, timerVars, activeSkips,
                    actionLog, ta, aat, bk, manual, reply>>

TickStep(t) ==
  \/ TickRules(t)
  \/ TickPatchedAllow(t)
  \/ TickUnblocked(t)
  \/ TickPatchedBlock(t)
  \/ TickKill(t)
  \/ TickBlock(t)

\* ------------------------------------------------------------- timers
NoTimer == [timeoutId |-> Null, endTime |-> Null, kidName |-> NoKid]
HasTimer(tracker) == activeTimers[tracker].timeoutId # Null

\* A clearTimeout that leaves the handle pending.
clearTimeoutKeeps(pending, id) == pending

\* clearTimeout(id): the handle is no longer pending; a handle that has fired
\* or was cleared before is left as it is.
clearTimeout(pending, id) == {h \in pending : h.id # id}

\* setTimeout(() => blockKidNow(tracker), minutes * 60 * 1000)
setTimeout(pending, id, tracker, minutes) ==
  pending \cup {[id |-> id, tracker |-> tracker, due |-> now + minutes]}

\* parseInt(req.body.minutes, 10): the digits before the fraction, or NaN.
parseInt(raw) == [nan |-> raw.nan, value |-> IF raw.nan THEN 0 ELSE raw.whole]

\* Lines 1019 and 1057 without `!minutes || minutes < 1`.
MinutesRejectedAbove(raw) == parseInt(raw).nan \/ parseInt(raw).value > 120

\* Lines 1019 and 1057: `!minutes || minutes < 1 || minutes > 120`.
MinutesRejected(raw) ==
  LET minutes == parseInt(raw)
  IN minutes.nan \/ minutes.value = 0 \/ minutes.value < 1 \/ minutes.value > 120

Reply(op, status) == [op |-> op, status |-> status]

\* ------------------------------------------------------- timed-allow
\* POST /api/home/rules/:tracker/timed-allow, lines 1015-1051.
TaIds == 1..NumTa

IdleTa == [pc |-> "idle", tracker |-> 0, minutes |-> 0, ok |-> TRUE,
           rule |-> [present |-> FALSE, disabled |-> FALSE], wifi |-> NoWifi,
           trace |-> <<>>]

HasIdleTa == \E j \in TaIds : ta[j].pc = "idle"
FreeTa == CHOOSE j \in TaIds : ta[j].pc = "idle" /\ \A u \in 1..(j - 1) : ta[u].pc # "idle"

\* The request without lines 1026-1027: the existing handle stays pending.
TaKeepExisting(tracker) == timeouts

\* Lines 1026-1027: the existing timer's handle is cleared; the record stays.
TaCancelExisting(tracker) ==
  IF HasTimer(tracker) THEN clearTimeout(timeouts, activeTimers[tracker].timeoutId) ELSE timeouts

\* Lines 1017-1030, up to the rule fetch.
TaStart(tracker, raw) ==
  /\ HasIdleTa
  /\ tracker \in Configured
  /\ IF MinutesRejected(raw)
     THEN /\ reply' = Reply("timed-allow", 400)
          /\ UNCHANGED <<timeouts, ta>>
     ELSE /\ LogBudget /\ TimerBudget(1)
          /\ timeouts' = TaCancelExisting(tracker)
          /\ \E ok \in Outcomes :
               ta' = [ta EXCEPT ![FreeTa] =
                 [IdleTa EXCEPT !.pc = "rules", !.tracker = tracker,
                                !.minutes = parseInt(raw).value, !.ok = ok,
                                !.rule = IF ok THEN fwRules[tracker] ELSE @,
                                !.trace = <<Call("rules", 0, ok)>>]]
          /\ reply' = reply
  /\ UNCHANGED <<now, configVars, scheduleConfig, fwRules, unifiVars, activeTimers,
                 nextTimeoutId, activeSkips, actionLog, tick, aat, bk, manual>>

\* Lines 1039-1044: the timer is scheduled and recorded, and the request answered.
TaFinish(j) ==
  LET rec == ta[j]
  IN /\ timeouts' = setTimeout(timeouts, nextTimeoutId, rec.tracker, rec.minutes)
     /\ activeTimers' = [activeTimers EXCEPT ![rec.tracker] =
          [timeoutId |-> nextTimeoutId, endTime |-> now + rec.minutes,
           kidName |-> ConfigRule(rec.tracker).name]]
     /\ nextTimeoutId' = nextTimeoutId + 1
     /\ actionLog' = logAction(actionLog, "timed-allow", ConfigRule(rec.tracker).name)
     /\ reply' = Reply("timed-allow", 200)
     /\ ta' = [ta EXCEPT ![j] = IdleTa]

\* Lines 1031-1034: the rule list has arrived.
TaRules(j) ==
  LET rec == ta[j]
  IN /\ rec.pc = "rules"
     /\ IF ~rec.ok
        THEN /\ reply' = Reply("timed-allow", 500)
             /\ ta' = [ta EXCEPT ![j] = IdleTa]
             /\ UNCHANGED <<fwRules, timerVars, actionLog>>
        ELSE IF rec.rule.present /\ ~rec.rule.disabled
        THEN /\ \E ok \in Outcomes :
                  /\ fwRules' = PatchRule(fwRules, rec.tracker, TRUE, ok)
                  /\ ta' = [ta EXCEPT ![j] =
                       [rec EXCEPT !.pc = "patch", !.ok = ok,
                                   !.trace = Append(@, Call("patch-allow", rec.tracker, ok))]]
             /\ UNCHANGED <<timerVars, actionLog, reply>>
        ELSE TaFinish(j) /\ fwRules' = fwRules
     /\ UNCHANGED <<now, configVars, scheduleConfig, unifiVars, activeSkips, tick, aat, bk, manual>>

\* Line 1035: the PATCH has returned.
TaPatched(j) ==
  /\ ta[j].pc = "patch"
  /\ ta' = [ta EXCEPT ![j].pc = "apply", ![j].trace = Append(@, Call("apply", 0, TRUE))]
  /\ UNCHANGED <<now, configVars, scheduleConfig, fwRules, unifiVars, timerVars,
                 activeSkips, actionLog, tick, aat, bk, manual, reply>>

\* Line 1036: the apply has returned.
TaApplied(j) ==
  /\ ta[j].pc = "apply"
  /\ \E okAlias \in Outcomes, okClients \in Outcomes :
       /\ UnifiUnblockKid(ta[j].tracker, okAlias, okClients)
       /\ ta' = [ta EXCEPT ![j].pc = "unblock",
                           ![j].wifi = WifiUnblock(ta[j].tracker, okAlias, okClients),
                           ![j].trace = Append(@, Call("unifi-unblock", ta[j].tracker, TRUE))]
  /\ UNCHANGED <<now, configVars, scheduleConfig, fwRules, timerVars,
                 activeSkips, actionLog, tick, aat, bk, manual, reply>>

\* unifiUnblockKid has returned.
TaUnblocked(j) ==
  /\ ta[j].pc = "unblock"
  /\ TaFinish(j)
  /\ UNCHANGED <<now, configVars, scheduleConfig, fwRules, unifiVars, activeSkips,
                 tick, aat, bk, manual>>

TaStep(j) == TaRules(j) \/ TaPatched(j) \/ TaApplied(j) \/ TaUnblocked(j)

\* --------------------------------------------------- allow-all-timed
\* POST /api/home/allow-all-timed, lines 1054-1089.
IdleAat == [pc |-> "idle", minutes |-> 0, ok |-> TRUE, allRules |-> <<>>, idx |-> 0,
            endTime |-> 0, wifi |-> NoWifi, trace |-> <<>>]

\* Lines 1056-1061, up to the rule fetch.
AatStart(raw) ==
  /\ aat.pc = "idle"
  /\ IF MinutesRejected(raw)
     THEN /\ reply' = Reply("allow-all-timed", 400)
          /\ aat' = aat
     ELSE /\ LogBudget /\ TimerBudget(Len(homeRules))
          /\ \E ok \in Outcomes :
               aat' = [IdleAat EXCEPT !.pc = "rules", !.minutes = parseInt(raw).value,
                                      !.ok = ok,
                                      !.allRules = IF ok THEN fwRules ELSE <<>>,
                                      !.trace = <<Call("rules", 0, ok)>>]
          /\ reply' = reply
  /\ UNCHANGED <<now, configVars, scheduleConfig, fwRules, unifiVars, timerVars,
                 activeSkips, actionLog, tick, ta, bk, manual>>

\* Lines 1077-1078 for one kid, on the timer state `st`.
AatSetTimer(st, tracker, rec) ==
  [timers |-> [st.timers EXCEPT ![tracker] =
                 [timeoutId |-> st.nid, endTime |-> rec.endTime,
                  kidName |-> ConfigRule(tracker).name]],
   pending |-> setTimeout(st.pending, st.nid, tracker, rec.minutes),
   nid |-> st.nid + 1]

\* Lines 1068-1069 for one kid, on the timer state `st`.
AatClearExisting(st, tracker) ==
  [st EXCEPT !.pending = IF st.timers[tracker].timeoutId # Null
                         THEN clearTimeout(@, st.timers[tracker].timeoutId)
                         ELSE @]

\* The loop of lines 1067-1079 from position i on, up to its next await: the
\* position of the kid whose rule is patched (Len(homeRules) + 1 when the loop
\* has ended) and the timer state reached.
RECURSIVE AatScan(_, _, _)
AatScan(i, st, rec) ==
  IF i > Len(homeRules) THEN [stop |-> i, st |-> st]
  ELSE LET tracker == homeRules[i].tracker
           cleared == AatClearExisting(st, tracker)
       IN IF rec.allRules[tracker].present /\ ~rec.allRules[tracker].disabled
          THEN [stop |-> i, st |-> cleared]
          ELSE AatScan(i + 1, AatSetTimer(cleared, tracker, rec), rec)

TimerState == [timers |-> activeTimers, pending |-> timeouts, nid |-> nextTimeoutId]

\* The loop from position `from` on, on the timer state `st`, and the apply of
\* line 1081 when the loop ends.
AatLoop(rec, from, st) ==
  LET r == AatScan(from, st, rec)
  IN /\ activeTimers' = r.st.timers
     /\ timeouts' = r.st.pending
     /\ nextTimeoutId' = r.st.nid
     /\ IF r.stop <= Len(homeRules)
        THEN \E ok \in Outcomes :
               /\ fwRules' = PatchRule(fwRules, homeRules[r.stop].tracker, TRUE, ok)
               /\ aat' = [rec EXCEPT !.pc = "patch", !.ok = ok, !.idx = r.stop,
                            !.trace = Append(@, Call("patch-allow", homeRules[r.stop].tracker, ok))]
        ELSE /\ fwRules' = fwRules
             /\ aat' = [rec EXCEPT !.pc = "apply", !.trace = Append(@, Call("apply", 0, TRUE))]

\* Lines 1062-1067: the rule list has arrived.
AatRules ==
  /\ aat.pc = "rules"
  /\ IF ~aat.ok
     THEN /\ reply' = Reply("allow-all-timed", 500)
          /\ aat' = IdleAat
          /\ UNCHANGED <<fwRules, timerVars>>
     ELSE /\ AatLoop([aat EXCEPT !.endTime = now + aat.minutes], 1, TimerState)
          /\ reply' = reply
  /\ UNCHANGED <<now, configVars, scheduleConfig, unifiVars, activeSkips, actionLog,
                 tick, ta, bk, manual>>

\* Line 1074: the PATCH has returned.
AatPatched ==
  LET tracker == homeRules[aat.idx].tracker
  IN /\ aat.pc = "patch"
     /\ \E okAlias \in Outcomes, okClients \in Outcomes :
          /\ UnifiUnblockKid(tracker, okAlias, okClients)
          /\ aat' = [aat EXCEPT !.pc = "unblock",
                                !.wifi = WifiUnblock(tracker, okAlias, okClients),
                                !.trace = Append(@, Call("unifi-unblock", tracker, TRUE))]
     /\ UNCHANGED <<now, configVars, scheduleConfig, fwRules, timerVars, activeSkips,
                    actionLog, tick, ta, bk, manual, reply>>

\* Lines 1077-1079: unifiUnblockKid has returned.
AatUnblocked ==
  /\ aat.pc = "unblock"
  /\ AatLoop(aat, aat.idx + 1, AatSetTimer(TimerState, homeRules[aat.idx].tracker, aat))
  /\ UNCHANGED <<now, configVars, scheduleConfig, unifiVars, activeSkips, actionLog,
                 tick, ta, bk, manual, reply>>

\* Lines 1082-1084: one 'timed-allow' entry per kid, in the order of HOME_RULES.
RECURSIVE AatLog(_, _)
AatLog(log, i) ==
  IF i > Len(homeRules) THEN log
  ELSE AatLog(logAction(log, "timed-allow", homeRules[i].name), i + 1)

\* Lines 1082-1085: the apply has returned.
AatApplied ==
  /\ aat.pc = "apply"
  /\ actionLog' = AatLog(actionLog, 1)
  /\ reply' = Reply("allow-all-timed", 200)
  /\ aat' = IdleAat
  /\ UNCHANGED <<now, configVars, scheduleConfig, fwRules, unifiVars, timerVars,
                 activeSkips, tick, ta, bk, manual>>

AatStep == AatRules \/ AatPatched \/ AatUnblocked \/ AatApplied

\* ------------------------------------------------------ blockKidNow
\* blockKidNow(tracker), lines 455-482, called when a timer fires and by
\* POST /api/home/rules/:tracker/cancel-timer, lines 1092-1106.
BkIds == 1..NumBk

\* `existing` is the record cancel-timer read at line 1095 (NoTimer: none, or
\* the call comes from a timer).
IdleBk == [pc |-> "idle", tracker |-> 0, kidName |-> NoKid, via |-> "", ok |-> TRUE,
           existing |-> NoTimer,
           rule |-> [present |-> FALSE, disabled |-> FALSE], wifi |-> NoWifi,
           trace |-> <<>>]

HasIdleBk == \E b \in BkIds : bk[b].pc = "idle"
FreeBk == CHOOSE b \in BkIds : bk[b].pc = "idle" /\ \A u \in 1..(b - 1) : bk[u].pc # "idle"

\* Line 464 without its `!skipActive`.
InScheduleWindowNoSkip(tracker) ==
  computeScheduleInfo(tracker).enabled /\ computeScheduleInfo(tracker).active

\* Line 464: `info.enabled && info.active && !skipActive`.
InScheduleWindow(tracker) ==
  /\ computeScheduleInfo(tracker).enabled
  /\ computeScheduleInfo(tracker).active
  /\ ~SkipActive(tracker)

\* The answer of cancel-timer (line 1102), once its blockKidNow has returned.
BkReturn(via) == IF via = "cancel" THEN Reply("cancel-timer", 200) ELSE reply

\* Lines 456-469: blockKidNow up to its rule fetch, entered with the timer map
\* `timers` and the audit log `log`.
BkEnter(tracker, via, timers, log) ==
  LET timerData == timers[tracker]
      kidName == IF timerData.timeoutId # Null THEN timerData.kidName ELSE ToString(tracker)
  IN /\ activeTimers' = [timers EXCEPT ![tracker] = NoTimer]
     /\ IF InScheduleWindow(tracker)
        THEN /\ actionLog' = logAction(log, "timer-expired", kidName)
             /\ reply' = BkReturn(via)
             /\ bk' = bk
        ELSE /\ HasIdleBk
             /\ actionLog' = log
             /\ reply' = reply
             /\ \E ok \in Outcomes :
                  bk' = [bk EXCEPT ![FreeBk] =
                    [IdleBk EXCEPT !.pc = "rules", !.tracker = tracker, !.kidName = kidName,
                                   !.via = via, !.ok = ok,
                                   !.existing = IF via = "cancel" THEN activeTimers[tracker]
                                                ELSE NoTimer,
                                   !.rule = IF ok THEN fwRules[tracker] ELSE @,
                                   !.trace = <<Call("rules", 0, ok)>>]]

\* A pending timeout fires: line 1040 or 1077 calls blockKidNow.
Fire(h) ==
  /\ h \in timeouts
  /\ h.due <= now
  /\ timeouts' = timeouts \ {h}
  /\ BkEnter(h.tracker, "timer", activeTimers, actionLog)
  /\ UNCHANGED <<now, configVars, scheduleConfig, fwRules, unifiVars, nextTimeoutId,
                 activeSkips, tick, ta, aat, manual>>

\* Lines 1094-1101, up to the rule fetch of blockKidNow.
CancelTimer(tracker) ==
  LET existing == activeTimers[tracker]
  IN /\ tracker \in Configured
     /\ LogBudget
     /\ IF HasTimer(tracker)
        THEN /\ timeouts' = clearTimeout(timeouts, existing.timeoutId)
             /\ BkEnter(tracker, "cancel",
                        [activeTimers EXCEPT ![tracker] = NoTimer],
                        logAction(actionLog, "timer-cancel", existing.kidName))
        ELSE /\ timeouts' = timeouts
             /\ BkEnter(tracker, "cancel", activeTimers, actionLog)
     /\ UNCHANGED <<now, configVars, scheduleConfig, fwRules, unifiVars, nextTimeoutId,
                    activeSkips, tick, ta, aat, manual>>

\* Lines 470-472: the rule list has arrived.
BkRules(b) ==
  LET rec == bk[b]
  IN /\ rec.pc = "rules"
     /\ IF rec.ok /\ rec.rule.present /\ rec.rule.disabled
        THEN /\ \E ok \in Outcomes :
                  /\ fwRules' = PatchRule(fwRules, rec.tracker, FALSE, ok)
                  /\ bk' = [bk EXCEPT ![b] =
                       [rec EXCEPT !.pc = "patch", !.ok = ok,
                                   !.trace = Append(@, Call("patch-block", rec.tracker, ok))]]
             /\ reply' = reply
        ELSE /\ fwRules' = fwRules
             /\ bk' = [bk EXCEPT ![b] = IdleBk]
             /\ reply' = BkReturn(rec.via)
     /\ UNCHANGED <<now, configVars, scheduleConfig, unifiVars, timerVars, activeSkips,
                    actionLog, tick, ta, aat, manual>>

\* Line 473: the PATCH has returned.
BkPatched(b) ==
  /\ bk[b].pc = "patch"
  /\ bk' = [bk EXCEPT ![b].pc = "apply", ![b].trace = Append(@, Call("apply", 0, TRUE))]
  /\ UNCHANGED <<now, configVars, scheduleConfig, fwRules, unifiVars, timerVars,
                 activeSkips, actionLog, tick, ta, aat, manual, reply>>

\* Line 474: the apply has returned.
BkApplied(b) ==
  /\ bk[b].pc = "apply"
  /\ bk' = [bk EXCEPT ![b].pc = "kill", ![b].trace = Append(@, Call("kill", bk[b].tracker, TRUE))]
  /\ UNCHANGED <<now, configVars, scheduleConfig, fwRules, unifiVars, timerVars,
                 activeSkips, actionLog, tick, ta, aat, manual, reply>>

\* Line 475: killStatesForSource has returned.
BkKilled(b) ==
  /\ bk[b].pc = "kill"
  /\ \E okAlias \in Outcomes, okClients \in Outcomes :
       \E okMacs \in BlockDone(bk[b].tracker, okAlias, okClients) :
         /\ UnifiBlockKid(bk[b].tracker, okAlias, okClients, okMacs)
         /\ bk' = [bk EXCEPT ![b].pc = "unifi",
                             ![b].wifi = WifiBlock(bk[b].tracker, okAlias, okClients, okMacs),
                             ![b].trace = Append(@, Call("unifi-block", bk[b].tracker, TRUE))]
  /\ UNCHANGED <<now, configVars, scheduleConfig, fwRules, timerVars,
                 activeSkips, actionLog, tick, ta, aat, manual, reply>>

\* Lines 476-477: unifiBlockKid has returned.
BkBlocked(b) ==
  /\ bk[b].pc = "unifi"
  /\ actionLog' = logAction(actionLog, "timer-expired", bk[b].kidName)
  /\ reply' = BkReturn(bk[b].via)
  /\ bk' = [bk EXCEPT ![b] = IdleBk]
  /\ UNCHANGED <<now, configVars, scheduleConfig, fwRules, unifiVars, timerVars,
                 activeSkips, tick, ta, aat, manual>>

BkStep(b) == BkRules(b) \/ BkPatched(b) \/ BkApplied(b) \/ BkKilled(b) \/ BkBlocked(b)

\* ---------------------------------------- toggle, allow-all, block-all
\* POST /api/home/rules/:tracker/toggle (lines 820-859), POST /api/home/allow-all
\* (lines 891-914) and POST /api/home/block-all (lines 917-947): the request
\* in flight.
IdleManual == [pc |-> "idle", op |-> "", tracker |-> 0, ok |-> TRUE,
               rule |-> [present |-> FALSE, disabled |-> FALSE],
               allRules |-> <<>>, idx |-> 0, changed |-> 0,
               toKillStates |-> <<>>, kidx |-> 0, wifi |-> NoWifi, trace |-> <<>>]

\* The request answers and ends.
ManualReturn(op, status) ==
  /\ reply' = Reply(op, status)
  /\ manual' = IdleManual

\* Lines 822-826, up to the rule fetch.
ToggleStart(tracker) ==
  /\ manual.pc = "idle"
  /\ IF tracker \notin Configured
     THEN ManualReturn("toggle", 404)
     ELSE /\ LogBudget
          /\ \E ok \in Outcomes :
               manual' = [IdleManual EXCEPT !.pc = "rules", !.op = "toggle",
                                            !.tracker = tracker, !.ok = ok,
                                            !.rule = IF ok THEN fwRules[tracker] ELSE @,
                                            !.trace = <<Call("rules", 0, ok)>>]
          /\ reply' = reply
  /\ UNCHANGED <<now, configVars, scheduleConfig, fwRules, unifiVars, timerVars,
                 activeSkips, actionLog, tick, ta, aat, bk>>

\* Line 833: blockEnabled = !newDisabledState = currentRule.disabled.
blockEnabled(rec) == rec.rule.disabled

\* Lines 827-834: the rule list has arrived.
ToggleRules ==
  /\ manual.pc = "rules" /\ manual.op = "toggle"
  /\ IF ~manual.ok
     THEN ManualReturn("toggle", 500) /\ fwRules' = fwRules
     ELSE IF ~manual.rule.present
     THEN ManualReturn("toggle", 404) /\ fwRules' = fwRules
     ELSE /\ \E ok \in Outcomes :
               /\ fwRules' = PatchRule(fwRules, manual.tracker, ~manual.rule.disabled, ok)
               /\ manual' = [manual EXCEPT !.pc = "patch", !.ok = ok,
                    !.trace = Append(@, Call(IF blockEnabled(manual) THEN "patch-block"
                                             ELSE "patch-allow", manual.tracker, ok))]
          /\ reply' = reply
  /\ UNCHANGED <<now, configVars, scheduleConfig, unifiVars, timerVars, activeSkips,
                 actionLog, tick, ta, aat, bk>>

\* Line 836 without its return: the handler goes on after a failed PATCH.
TogglePatchFailedIgnored(rec) == FALSE

\* Line 836: `if (updateResponse.error) return res.status(500)...`.
TogglePatchFailed(rec) == ~rec.ok

\* Lines 835-837: the PATCH has returned.
TogglePatched ==
  /\ manual.pc = "patch" /\ manual.op = "toggle"
  /\ IF TogglePatchFailed(manual)
     THEN ManualReturn("toggle", 500)
     ELSE /\ manual' = [manual EXCEPT !.pc = "apply",
                                      !.trace = Append(@, Call("apply", 0, TRUE))]
          /\ reply' = reply
  /\ UNCHANGED <<now, configVars, scheduleConfig, fwRules, unifiVars, timerVars,
                 activeSkips, actionLog, tick, ta, aat, bk>>

\* Lines 839-846: the apply has returned.
ToggleApplied ==
  /\ manual.pc = "apply" /\ manual.op = "toggle"
  /\ IF blockEnabled(manual)
     THEN /\ manual' = [manual EXCEPT !.pc = "kill",
                          !.trace = Append(@, Call("kill", manual.tracker, TRUE))]
          /\ UNCHANGED unifiVars
     ELSE \E okAlias \in Outcomes, okClients \in Outcomes :
            /\ UnifiUnblockKid(manual.tracker, okAlias, okClients)
            /\ manual' = [manual EXCEPT !.pc = "unblock",
                 !.wifi = WifiUnblock(manual.tracker, okAlias, okClients),
                 !.trace = Append(@, Call("unifi-unblock", manual.tracker, TRUE))]
  /\ UNCHANGED <<now, configVars, scheduleConfig, fwRules, timerVars, activeSkips,
                 actionLog, tick, ta, aat, bk, reply>>

\* Line 843: killStatesForSource has returned.
ToggleKilled ==
  /\ manual.pc = "kill" /\ manual.op = "toggle"
  /\ \E okAlias \in Outcomes, okClients \in Outcomes :
       \E okMacs \in BlockDone(manual.tracker, okAlias, okClients) :
         /\ UnifiBlockKid(manual.tracker, okAlias, okClients, okMacs)
         /\ manual' = [manual EXCEPT !.pc = "block",
              !.wifi = WifiBlock(manual.tracker, okAlias, okClients, okMacs),
              !.trace = Append(@, Call("unifi-block", manual.tracker, TRUE))]
  /\ UNCHANGED <<now, configVars, scheduleConfig, fwRules, timerVars, activeSkips,
                 actionLog, tick, ta, aat, bk, reply>>

\* Lines 847-855 with the kid's timer cancelled as in cancel-timer (lines 1096-1099).
ToggleDoneCancelsTimer ==
  /\ manual.pc \in {"block", "unblock"} /\ manual.op = "toggle"
  /\ actionLog' = logAction(actionLog,
                            IF blockEnabled(manual) THEN "toggle-block" ELSE "toggle-allow",
                            ConfigRule(manual.tracker).name)
  /\ ManualReturn("toggle", 200)
  /\ timeouts' = clearTimeout(timeouts, activeTimers[manual.tracker].timeoutId)
  /\ activeTimers' = [activeTimers EXCEPT ![manual.tracker] = NoTimer]
  /\ UNCHANGED <<now, configVars, scheduleConfig, fwRules, unifiVars, nextTimeoutId,
                 activeSkips, tick, ta, aat, bk>>

\* Lines 847-855: the wireless call has returned.
ToggleDone ==
  /\ manual.pc \in {"block", "unblock"} /\ manual.op = "toggle"
  /\ actionLog' = logAction(actionLog,
                            IF blockEnabled(manual) THEN "toggle-block" ELSE "toggle-allow",
                            ConfigRule(manual.tracker).name)
  /\ ManualReturn("toggle", 200)
  /\ UNCHANGED <<now, configVars, scheduleConfig, fwRules, unifiVars, timerVars,
                 activeSkips, tick, ta, aat, bk>>

ToggleStep == ToggleRules \/ TogglePatched \/ ToggleApplied \/ ToggleKilled \/ ToggleDone

\* Lines 893-896 and 919-922, up to the rule fetch.
AllStart(op) ==
  /\ manual.pc = "idle"
  /\ LogBudget
  /\ \E ok \in Outcomes :
       manual' = [IdleManual EXCEPT !.pc = "rules", !.op = op, !.ok = ok,
                                    !.allRules = IF ok THEN fwRules ELSE <<>>,
                                    !.trace = <<Call("rules", 0, ok)>>]
  /\ UNCHANGED <<now, configVars, scheduleConfig, fwRules, unifiVars, timerVars,
                 activeSkips, actionLog, tick, ta, aat, bk, reply>>

AllowAllStart == AllStart("allow-all")
BlockAllStart == AllStart("block-all")

\* Lines 899-901 and 926-928: the position of the next kid, from position i
\* on, whose rule is present with the given disabled flag; Len(homeRules) + 1
\* when there is none.
RECURSIVE AllScan(_, _, _)
AllScan(i, rec, disabled) ==
  IF i > Len(homeRules) THEN i
  ELSE LET currentRule == rec.allRules[homeRules[i].tracker]
       IN IF currentRule.present /\ currentRule.disabled = disabled THEN i
          ELSE AllScan(i + 1, rec, disabled)

\* Lines 910-911 and 941-942: the audit entry and the answer.
AllFinish(rec) ==
  /\ actionLog' = logAction(actionLog, rec.op, NoKid)
  /\ ManualReturn(rec.op, 200)

\* The loop of lines 898-905 from position `from` on, up to its next await,
\* and lines 907-911 when it has ended.
AllowAllLoop(rec, from) ==
  LET stop == AllScan(from, rec, FALSE)
  IN IF stop <= Len(homeRules)
     THEN /\ \E ok \in Outcomes :
               /\ fwRules' = PatchRule(fwRules, homeRules[stop].tracker, TRUE, ok)
               /\ manual' = [rec EXCEPT !.pc = "patch", !.ok = ok, !.idx = stop,
                    !.changed = @ + 1,
                    !.trace = Append(@, Call("patch-allow", homeRules[stop].tracker, ok))]
          /\ UNCHANGED <<actionLog, reply>>
     ELSE IF rec.changed > 0
     THEN /\ manual' = [rec EXCEPT !.pc = "apply", !.trace = Append(@, Call("apply", 0, TRUE))]
          /\ UNCHANGED <<fwRules, actionLog, reply>>
     ELSE AllFinish(rec) /\ fwRules' = fwRules

\* Lines 893-898: the rule list has arrived.
AllowAllRules ==
  /\ manual.pc = "rules" /\ manual.op = "allow-all"
  /\ IF ~manual.ok
     THEN ManualReturn("allow-all", 500) /\ UNCHANGED <<fwRules, actionLog>>
     ELSE AllowAllLoop(manual, 1)
  /\ UNCHANGED <<now, configVars, scheduleConfig, unifiVars, timerVars, activeSkips,
                 tick, ta, aat, bk>>

\* Lines 901-903: the PATCH has returned.
AllowAllPatched ==
  LET tracker == homeRules[manual.idx].tracker
  IN /\ manual.pc = "patch" /\ manual.op = "allow-all"
     /\ \E okAlias \in Outcomes, okClients \in Outcomes :
          /\ UnifiUnblockKid(tracker, okAlias, okClients)
          /\ manual' = [manual EXCEPT !.pc = "unblock",
               !.wifi = WifiUnblock(tracker, okAlias, okClients),
               !.trace = Append(@, Call("unifi-unblock", tracker, TRUE))]
     /\ UNCHANGED <<now, configVars, scheduleConfig, fwRules, timerVars, activeSkips,
                    actionLog, tick, ta, aat, bk, reply>>

\* Lines 903-907: unifiUnblockKid has returned.
AllowAllUnblocked ==
  /\ manual.pc = "unblock" /\ manual.op = "allow-all"
  /\ AllowAllLoop(manual, manual.idx + 1)
  /\ UNCHANGED <<now, configVars, scheduleConfig, unifiVars, timerVars, activeSkips,
                 tick, ta, aat, bk>>

\* Lines 907-911: the apply has returned.
AllowAllApplied ==
  /\ manual.pc = "apply" /\ manual.op = "allow-all"
  /\ AllFinish(manual)
  /\ UNCHANGED <<now, configVars, scheduleConfig, fwRules, unifiVars, timerVars,
                 activeSkips, tick, ta, aat, bk>>

AllowAllStep == AllowAllRules \/ AllowAllPatched \/ AllowAllUnblocked \/ AllowAllApplied

\* The loop of lines 925-932 from position `from` on, up to its next await,
\* and lines 934-942 when it has ended.
BlockAllLoop(rec, from) ==
  LET stop == AllScan(from, rec, TRUE)
  IN IF stop <= Len(homeRules)
     THEN /\ \E ok \in Outcomes :
               /\ fwRules' = PatchRule(fwRules, homeRules[stop].tracker, FALSE, ok)
               /\ manual' = [rec EXCEPT !.pc = "patch", !.ok = ok, !.idx = stop,
                    !.changed = @ + 1,
                    !.toKillStates = Append(@, homeRules[stop].tracker),
                    !.trace = Append(@, Call("patch-block", homeRules[stop].tracker, ok))]
          /\ UNCHANGED <<actionLog, reply>>
     ELSE IF rec.changed > 0
     THEN /\ manual' = [rec EXCEPT !.pc = "apply", !.trace = Append(@, Call("apply", 0, TRUE))]
          /\ UNCHANGED <<fwRules, actionLog, reply>>
     ELSE AllFinish(rec) /\ fwRules' = fwRules

\* Lines 919-925: the rule list has arrived.
BlockAllRules ==
  /\ manual.pc = "rules" /\ manual.op = "block-all"
  /\ IF ~manual.ok
     THEN ManualReturn("block-all", 500) /\ UNCHANGED <<fwRules, actionLog>>
     ELSE BlockAllLoop(manual, 1)
  /\ UNCHANGED <<now, configVars, scheduleConfig, unifiVars, timerVars, activeSkips,
                 tick, ta, aat, bk>>

\* Lines 928-934: the PATCH has returned.
BlockAllPatched ==
  /\ manual.pc = "patch" /\ manual.op = "block-all"
  /\ BlockAllLoop(manual, manual.idx + 1)
  /\ UNCHANGED <<now, configVars, scheduleConfig, unifiVars, timerVars, activeSkips,
                 tick, ta, aat, bk>>

\* Lines 935-942: the apply or a kid's unifiBlockKid has returned.
BlockAllKill ==
  /\ manual.pc \in {"apply", "block"} /\ manual.op = "block-all"
  /\ IF manual.kidx < Len(manual.toKillStates)
     THEN /\ manual' = [manual EXCEPT !.pc = "kill", !.kidx = @ + 1,
               !.trace = Append(@, Call("kill", manual.toKillStates[manual.kidx + 1], TRUE))]
          /\ UNCHANGED <<actionLog, reply>>
     ELSE AllFinish(manual)
  /\ UNCHANGED <<now, configVars, scheduleConfig, fwRules, unifiVars, timerVars,
                 activeSkips, tick, ta, aat, bk>>

\* Line 937: killStatesForSource has returned.
BlockAllKilled ==
  LET tracker == manual.toKillStates[manual.kidx]
  IN /\ manual.pc = "kill" /\ manual.op = "block-all"
     /\ \E okAlias \in Outcomes, okClients \in Outcomes :
          \E okMacs \in BlockDone(tracker, okAlias, okClients) :
            /\ UnifiBlockKid(tracker, okAlias, okClients, okMacs)
            /\ manual' = [manual EXCEPT !.pc = "block",
                 !.wifi = WifiBlock(tracker, okAlias, okClients, okMacs),
                 !.trace = Append(@, Call("unifi-block", tracker, TRUE))]
     /\ UNCHANGED <<now, configVars, scheduleConfig, fwRules, timerVars, activeSkips,
                    actionLog, tick, ta, aat, bk, reply>>

BlockAllStep == BlockAllRules \/ BlockAllPatched \/ BlockAllKill \/ BlockAllKilled

\* ------------------------------------------------------ service worker
\* public/sw.js.  A URL is the sequence of its characters.
UrlRoot == <<"/">>
UrlLog == <<"/", "l", "o", "g">>
UrlApiRules == <<"/", "a", "p", "i", "/", "r">>
UrlApiBare == <<"/", "a", "p", "i">>
UrlNested == <<"/", "v", "/", "a", "p", "i", "/">>
Urls == {UrlRoot, UrlLog, UrlApiRules, UrlApiBare, UrlNested}

\* Line 2: the pages cached at install.
SHELL == {UrlRoot, UrlLog}

\* '/api/'
ApiMark == <<"/", "a", "p", "i", "/">>

\* String.prototype.includes
includes(str, sub) ==
  \E i \in 1..(Len(str) - Len(sub) + 1) : SubSeq(str, i, i + Len(sub) - 1) = sub

\* Line 20 testing the start of the path only.
IsApiCallAtStart(url) == Len(url) >= Len(ApiMark) /\ SubSeq(url, 1, Len(ApiMark)) = ApiMark

\* Line 20: `e.request.url.includes('/api/')`.
IsApiCall(url) == includes(url, ApiMark)

FetchIds == 1..NumFetch
IdleFetch == [pc |-> "idle", url |-> <<>>, ok |-> TRUE]
HasIdleFetch == \E f \in FetchIds : fetchEvents[f].pc = "idle"
FreeFetch ==
  CHOOSE f \in FetchIds : fetchEvents[f].pc = "idle"
                          /\ \A u \in 1..(f - 1) : fetchEvents[u].pc # "idle"

\* What a page gets for a request: from the network through the service
\* worker, from the cache, nothing (a network error), or from the browser's
\* own fetch when the service worker does not answer.
Answer(url, by) == [url |-> url, by |-> by]
NoAnswer == Answer(<<>>, "")

\* Lines 4-16: install stores the shell pages, activate takes the pages over.
SwInstall ==
  /\ swState = "parsed"
  /\ swState' = "activated"
  /\ cache' = cache \cup SHELL
  /\ UNCHANGED <<now, homeRules, unifiUrl, faults, aliasVars, scheduleConfig, fwRules,
                 unifiVars, timerVars, activeSkips, actionLog, tick, ta, aat, bk, manual,
                 fetchEvents, swAnswer, reply>>

\* Lines 18-24: a fetch event; the network answers `ok` or fails.
FetchEvent(url) ==
  /\ swState = "activated"
  /\ HasIdleFetch
  /\ IF IsApiCall(url)
     THEN /\ swAnswer' = Answer(url, "browser")
          /\ fetchEvents' = fetchEvents
     ELSE /\ \E ok \in BOOLEAN :
               fetchEvents' = [fetchEvents EXCEPT ![FreeFetch] =
                                 [pc |-> "network", url |-> url, ok |-> ok]]
          /\ swAnswer' = swAnswer
  /\ UNCHANGED <<now, homeRules, unifiUrl, faults, aliasVars, scheduleConfig, fwRules,
                 unifiVars, timerVars, activeSkips, actionLog, tick, ta, aat, bk, manual,
                 swState, cache, reply>>

\* Lines 25-30: fetch has settled.
NetworkDone(f) ==
  /\ fetchEvents[f].pc = "network"
  /\ IF fetchEvents[f].ok
     THEN /\ swAnswer' = Answer(fetchEvents[f].url, "network")
          /\ fetchEvents' = [fetchEvents EXCEPT ![f].pc = "put"]
     ELSE /\ swAnswer' = swAnswer
          /\ fetchEvents' = [fetchEvents EXCEPT ![f].pc = "match"]
  /\ UNCHANGED <<now, homeRules, unifiUrl, faults, aliasVars, scheduleConfig, fwRules,
                 unifiVars, timerVars, activeSkips, actionLog, tick, ta, aat, bk, manual,
                 swState, cache, reply>>

\* Line 27: caches.open(CACHE).then(c => c.put(...)) has settled; put rejects
\* for a request that is not a GET.
CachePut(f) ==
  /\ fetchEvents[f].pc = "put"
  /\ \E stored \in BOOLEAN :
       cache' = IF stored THEN cache \cup {fetchEvents[f].url} ELSE cache
  /\ fetchEvents' = [fetchEvents EXCEPT ![f] = IdleFetch]
  /\ UNCHANGED <<now, homeRules, unifiUrl, faults, aliasVars, scheduleConfig, fwRules,
                 unifiVars, timerVars, activeSkips, actionLog, tick, ta, aat, bk, manual,
                 swState, swAnswer, reply>>

\* Line 30: caches.match(e.request) has settled.
CacheMatch(f) ==
  /\ fetchEvents[f].pc = "match"
  /\ swAnswer' = Answer(fetchEvents[f].url,
                        IF fetchEvents[f].url \in cache THEN "cache" ELSE "none")
  /\ fetchEvents' = [fetchEvents EXCEPT ![f] = IdleFetch]
  /\ UNCHANGED <<now, homeRules, unifiUrl, faults, aliasVars, scheduleConfig, fwRules,
                 unifiVars, timerVars, activeSkips, actionLog, tick, ta, aat, bk, manual,
                 swState, cache, reply>>

SwStep(f) == NetworkDone(f) \/ CachePut(f) \/ CacheMatch(f)

\* ------------------------------------------------------ device routes
\* POST /api/kids/:tracker/devices (lines 727-751) and DELETE
\* /api/kids/:tracker/devices/:ip (lines 754-774), with getKidAlias (lines
\* 692-711).  An address is a number; BadIp is a body without a valid `ip`.
BadIp == 0
DevIPs == {10 + KidA.tracker, 20 + KidA.tracker, 30 + KidA.tracker}

\* The aliases on pfSense at startup: the two addresses of each kid.
StoredAliases == [k \in Trackers |-> <<10 + k, 20 + k>>]

DevIds == 1..NumDev

IdleDev == [pc |-> "idle", op |-> "", tracker |-> 0, ip |-> BadIp, ok |-> TRUE,
            address |-> <<>>, trace |-> <<>>]

HasIdleDev == \E d \in DevIds : dev[d].pc = "idle"
FreeDev == CHOOSE d \in DevIds : dev[d].pc = "idle" /\ \A u \in 1..(d - 1) : dev[u].pc # "idle"

\* The request d answers and ends.
DevReturn(d, status) ==
  /\ reply' = Reply(dev[d].op, status)
  /\ dev' = [dev EXCEPT ![d] = IdleDev]

\* ips.includes(ip), lines 737 and 762.
Includes(ips, ip) == \E i \in 1..Len(ips) : ips[i] = ip

\* address.filter(e => e !== ip), line 765.
RECURSIVE Without(_, _)
Without(address, ip) ==
  IF address = <<>> THEN <<>>
  ELSE IF Head(address) = ip THEN Without(Tail(address), ip)
  ELSE <<Head(address)>> \o Without(Tail(address), ip)

\* Line 763 without its test: the last address may be removed.
LastAddressIgnored(ips) == FALSE

\* Line 763: `ips.length <= 1`.
LastAddress(ips) == Len(ips) <= 1

\* Lines 729-735 and 756-761: the request up to the rule fetch of getKidAlias.
DevStart(op, tracker, ip) ==
  /\ HasIdleDev
  /\ IF tracker \notin Configured
     THEN /\ reply' = Reply(op, 404)
          /\ dev' = dev
     ELSE IF op = "device-add" /\ ip = BadIp
     THEN /\ reply' = Reply(op, 400)
          /\ dev' = dev
     ELSE /\ LogBudget
          /\ \E ok \in Outcomes :
               dev' = [dev EXCEPT ![FreeDev] =
                 [IdleDev EXCEPT !.pc = "rules", !.op = op, !.tracker = tracker, !.ip = ip,
                                 !.ok = ok /\ fwRules[tracker].present,
                                 !.trace = <<Call("rules", 0, ok)>>]]
          /\ reply' = reply
  /\ UNCHANGED <<now, homeRules, unifiUrl, faults, swVars, aliases, scheduleConfig, fwRules,
                 unifiVars, timerVars, activeSkips, actionLog, tick, ta, aat, bk, manual>>

\* Lines 693-699: the rule list has arrived; the aliases are fetched.
DevRules(d) ==
  /\ dev[d].pc = "rules"
  /\ IF ~dev[d].ok
     THEN DevReturn(d, 500)
     ELSE /\ \E ok \in Outcomes :
               dev' = [dev EXCEPT ![d].pc = "aliases", ![d].ok = ok,
                                  ![d].address = IF ok THEN aliases[dev[d].tracker] ELSE <<>>,
                                  ![d].trace = Append(@, Call("aliases", 0, ok))]
          /\ reply' = reply
  /\ UNCHANGED <<now, homeRules, unifiUrl, faults, swVars, aliases, scheduleConfig, fwRules,
                 unifiVars, timerVars, activeSkips, actionLog, tick, ta, aat, bk, manual>>

\* The PATCH of the alias with the list `newAddress` (lines 744 and 766).
DevPatch(d, newAddress) ==
  \E ok \in Outcomes :
    /\ aliases' = IF ok THEN [aliases EXCEPT ![dev[d].tracker] = newAddress] ELSE aliases
    /\ dev' = [dev EXCEPT ![d].pc = "patch", ![d].ok = ok,
                          ![d].trace = Append(@, Call("patch-alias", dev[d].tracker, ok))]
    /\ reply' = reply

\* Lines 700-710 and 736-744 or 761-766: the alias list has arrived.
DevAliases(d) ==
  LET rec == dev[d]
      ips == rec.address
  IN /\ rec.pc = "aliases"
     /\ IF ~rec.ok
        THEN DevReturn(d, 500) /\ aliases' = aliases
        ELSE IF rec.op = "device-add"
        THEN IF Includes(ips, rec.ip)
             THEN DevReturn(d, 409) /\ aliases' = aliases
             ELSE DevPatch(d, Append(rec.address, rec.ip))
        ELSE IF ~Includes(ips, rec.ip)
             THEN DevReturn(d, 404) /\ aliases' = aliases
             ELSE IF LastAddress(ips)
             THEN DevReturn(d, 400) /\ aliases' = aliases
             ELSE DevPatch(d, Without(rec.address, rec.ip))
     /\ UNCHANGED <<now, homeRules, unifiUrl, faults, swVars, scheduleConfig, fwRules,
                    unifiVars, timerVars, activeSkips, actionLog, tick, ta, aat, bk, manual>>

\* Lines 745-746 and 767-768: the PATCH has returned.
DevPatched(d) ==
  /\ dev[d].pc = "patch"
  /\ IF ~dev[d].ok
     THEN DevReturn(d, 500)
     ELSE /\ dev' = [dev EXCEPT ![d].pc = "apply", ![d].trace = Append(@, Call("apply", 0, TRUE))]
          /\ reply' = reply
  /\ UNCHANGED <<now, homeRules, unifiUrl, faults, swVars, aliases, scheduleConfig, fwRules,
                 unifiVars, timerVars, activeSkips, actionLog, tick, ta, aat, bk, manual>>

\* Lines 747-748 and 769-770: the apply has returned.
DevApplied(d) ==
  /\ dev[d].pc = "apply"
  /\ actionLog' = logAction(actionLog, dev[d].op, ConfigRule(dev[d].tracker).name)
  /\ DevReturn(d, 200)
  /\ UNCHANGED <<now, homeRules, unifiUrl, faults, swVars, aliases, scheduleConfig, fwRules,
                 unifiVars, timerVars, activeSkips, tick, ta, aat, bk, manual>>

DevStep(d) == DevRules(d) \/ DevAliases(d) \/ DevPatched(d) \/ DevApplied(d)

\* ------------------------------------------------- skips and schedules
\* JavaScript truthiness of a timestamp or null.
Truthy(x) == x # Null /\ x # 0

\* Lines 1121-1130 without the branch of lines 1124-1126.
SkipUntilNextOnly(tracker) ==
  IF Truthy(computeScheduleInfo(tracker).nextEnd)
  THEN computeScheduleInfo(tracker).nextEnd ELSE Null

\* Lines 1121-1130: the instant a skip requested now lasts until, or Null.
SkipUntil(tracker) ==
  LET info == computeScheduleInfo(tracker)
  IN IF info.active /\ Truthy(info.windowEnd) THEN info.windowEnd
     ELSE IF Truthy(info.nextEnd) THEN info.nextEnd
     ELSE Null

\* skip-next without line 1139: no tick is started.
SkipNextNoTick(tracker) ==
  /\ tracker \in Configured
  /\ IF ~Truthy(SkipUntil(tracker))
     THEN /\ reply' = Reply("skip-next", 400)
          /\ UNCHANGED <<activeSkips, tick, actionLog>>
     ELSE /\ LogBudget /\ HasIdleTick
          /\ activeSkips' = [activeSkips EXCEPT ![tracker] = SkipUntil(tracker)]
          /\ tick' = tick
          /\ actionLog' = logAction(actionLog, "skip-next", ConfigRule(tracker).name)
          /\ reply' = Reply("skip-next", 200)
  /\ UNCHANGED <<now, configVars, scheduleConfig, fwRules, unifiVars, timerVars, ta, aat, bk, manual>>

\* POST /api/home/rules/:tracker/skip-next, lines 1115-1149.
SkipNext(tracker) ==
  /\ tracker \in Configured
  /\ IF ~Truthy(SkipUntil(tracker))
     THEN /\ reply' = Reply("skip-next", 400)
          /\ UNCHANGED <<activeSkips, tick, actionLog>>
     ELSE /\ LogBudget /\ HasIdleTick
          /\ activeSkips' = PruneSkips([activeSkips EXCEPT ![tracker] = SkipUntil(tracker)])
          /\ \E ok \in Outcomes : tick' = [tick EXCEPT ![FreeTick] = TickStarted(ok)]
          /\ actionLog' = logAction(actionLog, "skip-next", ConfigRule(tracker).name)
          /\ reply' = Reply("skip-next", 200)
  /\ UNCHANGED <<now, configVars, scheduleConfig, fwRules, unifiVars, timerVars, ta, aat, bk, manual>>

\* POST /api/home/rules/:tracker/cancel-skip, lines 1152-1163.
CancelSkip(tracker) ==
  /\ tracker \in Configured
  /\ LogBudget /\ HasIdleTick
  /\ activeSkips' = PruneSkips([activeSkips EXCEPT ![tracker] = Null])
  /\ actionLog' = logAction(actionLog, "skip-cancel", ConfigRule(tracker).name)
  /\ \E ok \in Outcomes : tick' = [tick EXCEPT ![FreeTick] = TickStarted(ok)]
  /\ reply' = Reply("cancel-skip", 200)
  /\ UNCHANGED <<now, configVars, scheduleConfig, fwRules, unifiVars, timerVars, ta, aat, bk, manual>>

\* POST /api/home/rules/:tracker/toggle-schedule, lines 862-888.
ToggleSchedule(tracker) ==
  /\ tracker \in Configured
  /\ LogBudget /\ HasIdleTick
  /\ scheduleConfig' = [scheduleConfig EXCEPT ![tracker].enabled = ~@]
  /\ activeSkips' = PruneSkips(activeSkips)
  /\ \E ok \in Outcomes : tick' = [tick EXCEPT ![FreeTick] = TickStarted(ok)]
  /\ actionLog' = logAction(actionLog, "schedule-toggle", ConfigRule(tracker).name)
  /\ reply' = Reply("toggle-schedule", 200)
  /\ UNCHANGED <<now, configVars, fwRules, unifiVars, timerVars, ta, aat, bk, manual>>

\* PUT /api/schedules, lines 964-988: a body that passes the checks of lines
\* 967-979 replaces the configuration, or the request is answered 400.
SaveSchedules(incoming, valid) ==
  /\ IF ~valid
     THEN /\ reply' = Reply("schedules", 400)
          /\ UNCHANGED <<scheduleConfig, activeSkips, tick, actionLog>>
     ELSE /\ LogBudget /\ HasIdleTick
          /\ scheduleConfig' = incoming
          /\ actionLog' = logAction(actionLog, "schedules-saved", NoKid)
          /\ activeSkips' = PruneSkips(activeSkips)
          /\ \E ok \in Outcomes : tick' = [tick EXCEPT ![FreeTick] = TickStarted(ok)]
          /\ reply' = Reply("schedules", 200)
  /\ UNCHANGED <<now, configVars, fwRules, unifiVars, timerVars, ta, aat, bk, manual>>

\* POST /api/schedules/disable-all (lines 991-998) and enable-all (lines 1001-1008).
SetAllSchedules(enabled) ==
  /\ TickBudget /\ HasIdleTick
  /\ scheduleConfig' = [k \in DOMAIN scheduleConfig |->
                          [scheduleConfig[k] EXCEPT !.enabled = enabled]]
  /\ activeSkips' = PruneSkips(activeSkips)
  /\ \E ok \in Outcomes : tick' = [tick EXCEPT ![FreeTick] = TickStarted(ok)]
  /\ reply' = Reply(IF enabled THEN "enable-all" ELSE "disable-all", 200)
  /\ UNCHANGED <<now, configVars, fwRules, unifiVars, timerVars, actionLog, ta, aat, bk,
                 manual>>

DisableAll == SetAllSchedules(FALSE)
EnableAll == SetAllSchedules(TRUE)

\* ---------------------------------------------------------------- time
Advance ==
  /\ now < Horizon
  /\ now' = now + 1
  /\ UNCHANGED <<configVars, scheduleConfig, fwRules, unifiVars, timerVars, activeSkips,
                 actionLog, tick, ta, aat, bk, manual, reply>>

\* ------------------------------------------------------ specifications
AllIdle ==
  /\ \A t \in TickIds : tick[t].pc = "idle"
  /\ \A j \in TaIds : ta[j].pc = "idle"
  /\ \A b \in BkIds : bk[b].pc = "idle"
  /\ aat.pc = "idle"
  /\ manual.pc = "idle"

\* The devices known-macs.json may hold at startup (lines 316-331): one that is
\* offline, and one that is online and excluded.
StoredMacs == {OfflineMac(KidA.tracker), ClientMac(20 + KidA.tracker)}

Schedules == {[enabled |-> e, windows |-> w] : e \in BOOLEAN, w \in {<<>>, <<WinMon>>}}

InitTicks(kids, mayFail, unifi, slots) ==
  /\ now = StartNow
  /\ homeRules = kids
  /\ scheduleConfig \in [Trackers -> Schedules]
  /\ \A k \in Trackers \ {kids[i].tracker : i \in 1..Len(kids)} :
       scheduleConfig[k] = [enabled |-> FALSE, windows |-> <<>>]
  /\ fwRules \in [Trackers -> [present : {TRUE}, disabled : BOOLEAN]]
  /\ \A k \in Trackers \ {kids[i].tracker : i \in 1..Len(kids)} : ~fwRules[k].disabled
  /\ unifiUrl = unifi
  /\ kidKnownMacs \in [Trackers -> SUBSET (IF unifi THEN StoredMacs ELSE {})]
  /\ \A k \in Trackers \ {kids[i].tracker : i \in 1..Len(kids)} : kidKnownMacs[k] = {}
  /\ kidBlockedMacs = [k \in Trackers |-> {}]
  /\ activeTimers = [k \in Trackers |-> NoTimer]
  /\ timeouts = {}
  /\ nextTimeoutId = 1
  /\ activeSkips = [k \in Trackers |-> Null]
  /\ actionLog = <<>>
  /\ faults = mayFail
  /\ aliases = StoredAliases
  /\ dev = [d \in DevIds |-> IdleDev]
  /\ swState = "parsed"
  /\ cache = {}
  /\ fetchEvents = [f \in FetchIds |-> IdleFetch]
  /\ swAnswer = NoAnswer
  /\ tick = [t \in 1..slots |-> IdleTick]
  /\ ta = [j \in TaIds |-> IdleTa]
  /\ aat = IdleAat
  /\ bk = [b \in BkIds |-> IdleBk]
  /\ manual = IdleManual
  /\ reply = Reply("", 0)

InitWith(kids, mayFail, unifi) == InitTicks(kids, mayFail, unifi, NumTicks)

Steps ==
  \/ \E t \in TickIds : TickStep(t)
  \/ \E j \in TaIds : TaStep(j)
  \/ AatStep
  \/ \E b \in BkIds : BkStep(b)

\* One request, tick or timer callback at a time, each run to its end before
\* the next starts; collaborator calls may fail.
InitSeq == InitWith(<<KidA>>, TRUE, FALSE)

NextSeq ==
  \/ AllIdle /\ Advance
  \/ AllIdle /\ TickBegin
  \/ AllIdle /\ \E k \in Trackers, raw \in RawMinutes : TaStart(k, raw)
  \/ AllIdle /\ \E raw \in RawMinutes : AatStart(raw)
  \/ AllIdle /\ \E h \in timeouts : Fire(h)
  \/ AllIdle /\ \E k \in Trackers : CancelTimer(k)
  \/ AllIdle /\ \E k \in Trackers : SkipNext(k)
  \/ AllIdle /\ \E k \in Trackers : CancelSkip(k)
  \/ AllIdle /\ \E k \in Trackers : ToggleSchedule(k)
  \/ Steps

SpecSeq == InitSeq /\ [][NextSeq]_vars

\* Requests, ticks and timer callbacks interleave at their awaits; every
\* collaborator call succeeds and the kid's schedule is enabled.
InitConc ==
  /\ InitWith(<<KidA>>, FALSE, FALSE)
  /\ scheduleConfig[KidA.tracker] = [enabled |-> TRUE, windows |-> <<WinMon>>]

ConcMinutes == {NotANumber, Num(1)}

NextConc ==
  \/ Advance
  \/ TickBegin
  \/ \E k \in Trackers, raw \in ConcMinutes : TaStart(k, raw)
  \/ \E h \in timeouts : Fire(h)
  \/ \E t \in TickIds : TickStep(t)
  \/ \E j \in TaIds : TaStep(j)
  \/ \E b \in BkIds : BkStep(b)

SpecConc == InitConc /\ [][NextConc]_vars

\* GET /api/home/rules, lines 781-818.  The request changes nothing, so its
\* rule fetch and its answer are taken as one step: the entries are computed
\* when the rule list has arrived.
RuleEntry(tracker) ==
  LET schedInfo == computeScheduleInfo(tracker)
  IN [tracker |-> tracker,
      blockEnabled |-> ~fwRules[tracker].disabled,
      scheduleEnabled |-> schedInfo.enabled,
      scheduleActive |-> schedInfo.active,
      scheduleWindowEnd |-> schedInfo.windowEnd,
      scheduleNextStart |-> schedInfo.nextStart,
      scheduleNextEnd |-> schedInfo.nextEnd,
      timerEndTime |-> activeTimers[tracker].endTime,
      skipUntil |-> IF SkipActive(tracker) THEN activeSkips[tracker] ELSE Null,
      found |-> fwRules[tracker].present]

GetRules ==
  /\ \E ok \in Outcomes :
       reply' = IF ok
                THEN [op |-> "home-rules", status |-> 200,
                      rules |-> [i \in KidIndexes |-> RuleEntry(homeRules[i].tracker)]]
                ELSE [op |-> "home-rules", status |-> 500, rules |-> <<>>]
  /\ UNCHANGED <<now, configVars, scheduleConfig, fwRules, unifiVars, timerVars,
                 activeSkips, actionLog, tick, ta, aat, bk, manual>>

\* The schedule evaluator on its own: the kid's windows and the instant are
\* drawn at the start, and the rules are listed.
WinA == [days |-> {1}, start |-> <<8, 0>>, end |-> <<17, 0>>]
WinB == [days |-> {1, 3}, start |-> <<16, 0>>, end |-> <<20, 0>>]
WinC == [days |-> {1, 6}, start |-> <<7, 30>>, end |-> <<8, 30>>]
EvalWindows ==
  {<<>>} \cup {<<a>> : a \in {WinA, WinB, WinC}}
         \cup {<<a, b>> : a \in {WinA, WinB, WinC}, b \in {WinA, WinB, WinC}}
EvalMinutes == {7 * 60, 7 * 60 + 45, 8 * 60, 10 * 60, 16 * 60 + 30, 17 * 60, 20 * 60}
EvalTimes == {d * MinutesPerDay + m : d \in 0..6, m \in EvalMinutes}

InitEval ==
  /\ now \in EvalTimes
  /\ homeRules = <<KidA>>
  /\ scheduleConfig \in [Trackers -> [enabled : BOOLEAN, windows : EvalWindows]]
  /\ scheduleConfig[KidB.tracker] = [enabled |-> FALSE, windows |-> <<>>]
  /\ fwRules = [k \in Trackers |-> [present |-> TRUE, disabled |-> FALSE]]
  /\ unifiUrl = FALSE
  /\ kidKnownMacs = [k \in Trackers |-> {}]
  /\ kidBlockedMacs = [k \in Trackers |-> {}]
  /\ activeTimers = [k \in Trackers |-> NoTimer]
  /\ timeouts = {}
  /\ nextTimeoutId = 1
  /\ activeSkips = [k \in Trackers |-> Null]
  /\ actionLog = <<>>
  /\ faults = FALSE
  /\ aliases = StoredAliases
  /\ dev = [d \in DevIds |-> IdleDev]
  /\ swState = "parsed"
  /\ cache = {}
  /\ fetchEvents = [f \in FetchIds |-> IdleFetch]
  /\ swAnswer = NoAnswer
  /\ tick = [t \in 1..NumTicks |-> IdleTick]
  /\ ta = [j \in TaIds |-> IdleTa]
  /\ aat = IdleAat
  /\ bk = [b \in BkIds |-> IdleBk]
  /\ manual = IdleManual
  /\ reply = Reply("", 0)

NextEval == GetRules

SpecEval == InitEval /\ [][NextEval]_vars

\* The reconciliation of two kids: ticks, skips and schedule toggles, one at a
\* time; collaborator calls may fail.
InitTick == InitWith(<<KidA, KidB>>, TRUE, FALSE)

NextTick ==
  \/ AllIdle /\ Advance
  \/ AllIdle /\ TickBegin
  \/ AllIdle /\ \E k \in Trackers : SkipNext(k)
  \/ AllIdle /\ \E k \in Trackers : CancelSkip(k)
  \/ AllIdle /\ \E k \in Trackers : ToggleSchedule(k)
  \/ \E t \in TickIds : TickStep(t)

SpecTick == InitTick /\ [][NextTick]_vars

\* The audit log on its own: action-log.json is loaded with a list that is
\* empty, short or at the cap, and entries are logged.
OldEntry == [action |-> "old", kid |-> NoKid]
OldestEntry == [action |-> "oldest", kid |-> NoKid]
LoadedLog(n) == [i \in 1..n |-> IF i = n THEN OldestEntry ELSE OldEntry]
LoadedLengths == {0, 1, 2, LogCap - 2, LogCap - 1, LogCap}
LoggedActions == {"toggle-block", "settings-saved"}
LoggedKids == {KidA.name, NoKid}

\* The entries logged since the start.
Logged == {i \in 1..Len(actionLog) : actionLog[i].action \in LoggedActions}

\* Any call of logAction (lines 204-208).
LogAny(action, kid) ==
  /\ Cardinality(Logged) < MaxLogged
  /\ actionLog' = logAction(actionLog, action, kid)
  /\ UNCHANGED <<now, configVars, scheduleConfig, fwRules, unifiVars, timerVars,
                 activeSkips, tick, ta, aat, bk, manual, reply>>

InitLog ==
  /\ now = StartNow
  /\ homeRules = <<KidA>>
  /\ scheduleConfig = [k \in Trackers |-> [enabled |-> FALSE, windows |-> <<>>]]
  /\ fwRules = [k \in Trackers |-> [present |-> TRUE, disabled |-> FALSE]]
  /\ unifiUrl = FALSE
  /\ kidKnownMacs = [k \in Trackers |-> {}]
  /\ kidBlockedMacs = [k \in Trackers |-> {}]
  /\ activeTimers = [k \in Trackers |-> NoTimer]
  /\ timeouts = {}
  /\ nextTimeoutId = 1
  /\ activeSkips = [k \in Trackers |-> Null]
  /\ actionLog \in {LoadedLog(n) : n \in LoadedLengths}
  /\ faults = FALSE
  /\ aliases = StoredAliases
  /\ dev = [d \in DevIds |-> IdleDev]
  /\ swState = "parsed"
  /\ cache = {}
  /\ fetchEvents = [f \in FetchIds |-> IdleFetch]
  /\ swAnswer = NoAnswer
  /\ tick = [t \in 1..NumTicks |-> IdleTick]
  /\ ta = [j \in TaIds |-> IdleTa]
  /\ aat = IdleAat
  /\ bk = [b \in BkIds |-> IdleBk]
  /\ manual = IdleManual
  /\ reply = Reply("", 0)

NextLog == \E action \in LoggedActions, kid \in LoggedKids : LogAny(action, kid)

SpecLog == InitLog /\ [][NextLog]_vars

\* The batch of a tick: two kids with enabled schedules, the controller
\* configured, ticks as the clock advances; collaborator calls may fail.
InitBatch ==
  /\ InitWith(<<KidA, KidB>>, TRUE, TRUE)
  /\ \A k \in Trackers : scheduleConfig[k].enabled /\ kidKnownMacs[k] = {}

NextBatch ==
  \/ AllIdle /\ Advance
  \/ AllIdle /\ TickBegin
  \/ \E t \in TickIds : TickStep(t)

SpecBatch == InitBatch /\ [][NextBatch]_vars

\* The requests that start a tick, for one kid, one at a time with the ticks
\* they start; collaborator calls may fail.
InitTrigger == InitWith(<<KidA>>, TRUE, FALSE)

Incoming ==
  {c \in [Trackers -> Schedules] : c[KidB.tracker] = [enabled |-> FALSE, windows |-> <<>>]}

NextTrigger ==
  \/ AllIdle /\ Advance
  \/ AllIdle /\ TickBegin
  \/ AllIdle /\ \E k \in Trackers : SkipNext(k)
  \/ AllIdle /\ \E k \in Trackers : CancelSkip(k)
  \/ AllIdle /\ \E k \in Trackers : ToggleSchedule(k)
  \/ AllIdle /\ \E incoming \in Incoming, valid \in BOOLEAN : SaveSchedules(incoming, valid)
  \/ AllIdle /\ DisableAll
  \/ AllIdle /\ EnableAll
  \/ \E t \in TickIds : TickStep(t)

SpecTrigger == InitTrigger /\ [][NextTrigger]_vars

\* Periodic and triggered ticks overlap at their awaits; two kids, every call
\* succeeds, and the clock, the skips and the schedules change between the
\* overlaps only.
InitOverlap ==
  /\ InitTicks(<<KidA, KidB>>, FALSE, FALSE, NumOverlap)
  /\ \A k \in Trackers : scheduleConfig[k] = [enabled |-> TRUE, windows |-> <<WinMon>>]

NextOverlap ==
  \/ AllIdle /\ Advance
  \/ TickBegin
  \/ AllIdle /\ \E k \in Trackers : SkipNext(k)
  \/ AllIdle /\ \E k \in Trackers : CancelSkip(k)
  \/ \E t \in TickIds : TickStep(t)

SpecOverlap == InitOverlap /\ [][NextOverlap]_vars

\* pfSense and UniFi answer from now on (pfsenseApiCall, lines 496-522, no
\* longer returns {error: true}).
Heal ==
  /\ faults
  /\ faults' = FALSE
  /\ UNCHANGED <<now, homeRules, unifiUrl, scheduleConfig, fwRules, unifiVars, timerVars,
                 activeSkips, actionLog, tick, ta, aat, bk, manual, aliasVars, swVars, reply>>

\* The periodic tick goes on for ever once the collaborators answer.
TickBeginHealed == (TickBudget \/ ~faults) /\ TickStart

\* Timed grants, their expiry and cancel-timer with failing collaborators that
\* may recover; the rules are blocked at the start.  setInterval keeps the
\* ticks coming, a due timeout fires and every call returns.
InitHeal ==
  /\ InitWith(<<KidA>>, TRUE, FALSE)
  /\ \A k \in Trackers : ~fwRules[k].disabled

HealMinutes == {Num(1), Num(2)}

NextHeal ==
  \/ AllIdle /\ Advance
  \/ AllIdle /\ TickBeginHealed
  \/ AllIdle /\ \E k \in Trackers, raw \in HealMinutes : TaStart(k, raw)
  \/ AllIdle /\ \E h \in timeouts : Fire(h)
  \/ AllIdle /\ \E k \in Trackers : CancelTimer(k)
  \/ Heal
  \/ \E t \in TickIds : TickStep(t)
  \/ \E j \in TaIds : TaStep(j)
  \/ \E b \in BkIds : BkStep(b)

SpecHeal ==
  /\ InitHeal
  /\ [][NextHeal]_vars
  /\ WF_vars(AllIdle /\ TickBeginHealed)
  /\ WF_vars(AllIdle /\ \E h \in timeouts : Fire(h))
  /\ WF_vars(\E t \in TickIds : TickStep(t))
  /\ WF_vars(\E j \in TaIds : TaStep(j))
  /\ WF_vars(\E b \in BkIds : BkStep(b))

\* toggle, allow-all and block-all of a kid that may have a timer or a skip:
\* one request at a time, collaborator calls may fail.
InitManual ==
  /\ InitWith(<<KidA>>, TRUE, FALSE)
  /\ scheduleConfig[KidA.tracker] = [enabled |-> TRUE, windows |-> <<WinMon>>]

NextManual ==
  \/ AllIdle /\ Advance
  \/ AllIdle /\ \E k \in Trackers, raw \in ConcMinutes : TaStart(k, raw)
  \/ AllIdle /\ \E k \in Trackers : SkipNext(k)
  \/ AllIdle /\ \E k \in Trackers : ToggleStart(k)
  \/ AllIdle /\ AllowAllStart
  \/ AllIdle /\ BlockAllStart
  \/ \E t \in TickIds : TickStep(t)
  \/ \E j \in TaIds : TaStep(j)
  \/ ToggleStep
  \/ AllowAllStep
  \/ BlockAllStep

SpecManual == InitManual /\ [][NextManual]_vars

\* add-device and remove-device requests of one kid interleave at their
\* awaits; collaborator calls may fail.
InitDev ==
  /\ InitWith(<<KidA>>, TRUE, FALSE)
  /\ \A k \in Trackers : scheduleConfig[k] = [enabled |-> FALSE, windows |-> <<>>]
  /\ \A k \in Trackers : ~fwRules[k].disabled

DevOps == {"device-add", "device-remove"}

NextDev ==
  \/ \E op \in DevOps, k \in Trackers, ip \in DevIPs \cup {BadIp} : DevStart(op, k, ip)
  \/ \E d \in DevIds : DevStep(d)

SpecDev == InitDev /\ [][NextDev]_vars

\* The service worker answering the requests of the pages.
InitSw == InitDev

NextSw ==
  \/ SwInstall
  \/ \E url \in Urls : FetchEvent(url)
  \/ \E f \in FetchIds : SwStep(f)

SpecSw == InitSw /\ [][NextSw]_vars

\* The wireless side effects of one kid: the controller is configured, every
\* operation that changes the kid's rule runs, one at a time, and collaborator
\* calls may fail. known-macs.json may hold a device that is offline and one
\* that settings.json excludes since it was learned.
InitUnifi ==
  /\ InitWith(<<KidA>>, TRUE, TRUE)
  /\ scheduleConfig[KidA.tracker] = [enabled |-> TRUE, windows |-> <<WinMon>>]

NextUnifi ==
  \/ AllIdle /\ Advance
  \/ AllIdle /\ TickBegin
  \/ AllIdle /\ \E k \in Trackers : ToggleStart(k)
  \/ AllIdle /\ AllowAllStart
  \/ AllIdle /\ BlockAllStart
  \/ AllIdle /\ \E k \in Trackers, raw \in ConcMinutes : TaStart(k, raw)
  \/ AllIdle /\ \E raw \in ConcMinutes : AatStart(raw)
  \/ AllIdle /\ \E h \in timeouts : Fire(h)
  \/ Steps
  \/ ToggleStep
  \/ AllowAllStep
  \/ BlockAllStep

SpecUnifi == InitUnifi /\ [][NextUnifi]_vars

\* ---------------------------------------------------------------- claims
PendingFor(tracker) == {h \in timeouts : h.tracker = tracker}

\* C1: in every reachable state a subject has at most one Timer record and at
\* most one pending deferred re-block action, also when two timed-allow
\* requests for it interleave at their awaits.
C1_AtMostOnePendingAction ==
  \A k \in Trackers : Cardinality(PendingFor(k)) <= 1

\* The calls a tick issues in a step: the entries its record of calls gains.
TickNewCalls(t) ==
  IF tick'[t].pc # "idle" /\ Len(tick'[t].trace) > Len(tick[t].trace)
  THEN {tick'[t].trace[i] : i \in (Len(tick[t].trace) + 1)..Len(tick'[t].trace)}
  ELSE {}

ActsOnKid == {"patch-allow", "patch-block", "kill", "unifi-block", "unifi-unblock"}

\* C2: a tick never issues a rule patch, a connection kill or a wireless
\* block/unblock for a subject while activeTimers holds a record for it.
C2_TickNeverActsOnTimedSubject ==
  [][\A t \in TickIds : \A c \in TickNewCalls(t) :
       c.op \in ActsOnKid => ~HasTimer(c.kid)]_vars

\* The timer of a subject is live: its record's deferred action is pending.
LiveTimer(tracker) ==
  /\ HasTimer(tracker)
  /\ \E h \in timeouts : h.id = activeTimers[tracker].timeoutId

\* C3: from the moment a timed-allow request has returned success until the
\* timer fires or is cancelled, the subject's rule is in the allowed state,
\* whatever ticks interleave with the request.
C3_TimedGrantWins ==
  \A k \in Configured :
    (LiveTimer(k) /\ fwRules[k].present) => fwRules[k].disabled

\* The deferred action the record of a subject names, as setTimeout made it.
RecordedHandle(tracker) ==
  [id |-> activeTimers[tracker].timeoutId, tracker |-> tracker,
   due |-> activeTimers[tracker].endTime]

\* The timed-allow request j answers 200 in this step.
TaSucceeds(j) ==
  ta[j].pc # "idle" /\ ta'[j].pc = "idle" /\ reply' = Reply("timed-allow", 200)

\* C4: when a timed-allow request that runs on its own succeeds for a subject
\* that already has a timer, the record holds the second timer's firing time
\* and the only pending action of the subject is the second timer's; an
\* action that fires is always the one its subject's record names, so the
\* first timer's action never fires and one re-block fires at the second's expiry.
C4_TimerReplacement ==
  [][/\ \A j \in TaIds, k \in Trackers :
        (TaSucceeds(j) /\ k = ta[j].tracker /\ HasTimer(k)) =>
          /\ activeTimers'[k].endTime = now + ta[j].minutes
          /\ activeTimers'[k].timeoutId # activeTimers[k].timeoutId
          /\ PendingFor(k)' = {RecordedHandle(k)'}
     /\ \A h \in timeouts : Fire(h) => (h = RecordedHandle(h.tracker) /\ now >= h.due)]_vars

\* A second timed-allow has replaced a timer that was not yet due.
C4_Witness ==
  /\ AllIdle /\ now = StartNow
  /\ Len(actionLog) = 2
  /\ actionLog[1].action = "timed-allow" /\ actionLog[2].action = "timed-allow"
  /\ \E k \in Configured :
       /\ activeTimers[k].timeoutId = nextTimeoutId - 1
       /\ nextTimeoutId - 1 > 1
       /\ PendingFor(k) = {RecordedHandle(k)}

\* Every call the task has issued so far succeeded.
NoFailure(trace) == \A i \in 1..Len(trace) : trace[i].ok

\* The run b of blockKidNow returns in this step.
BkReturns(b) == bk[b].pc # "idle" /\ bk'[b].pc = "idle"

\* The calls of lines 469-475, in the order blockKidNow issues them.
BlockCalls(tracker, okPatch) ==
  <<Call("rules", 0, TRUE), Call("patch-block", tracker, okPatch), Call("apply", 0, TRUE),
    Call("kill", tracker, TRUE), Call("unifi-block", tracker, TRUE)>>

\* C5: when a timer fires its record is removed in the same step, before any
\* call is issued; in an enabled, active and not skipped schedule window no
\* patch is issued; otherwise the rules are fetched and, when the rule is
\* allowed, it is patched to blocking, the change applied, the connections
\* killed, the wireless block requested and then 'timer-expired' is logged.
C5_TimerFiring ==
  [][/\ \A h \in timeouts, k \in Trackers :
        (Fire(h) /\ k = h.tracker) =>
          /\ ~HasTimer(k)'
          /\ IF /\ computeScheduleInfo(k).enabled
                /\ computeScheduleInfo(k).active
                /\ ~(activeSkips[k] # Null /\ now < activeSkips[k])
             THEN bk' = bk /\ fwRules' = fwRules
             ELSE \E b \in BkIds :
                    /\ bk[b].pc = "idle" /\ bk'[b].pc = "rules"
                    /\ bk'[b].via = "timer" /\ bk'[b].tracker = k
                    /\ fwRules' = fwRules
     /\ \A b \in BkIds, k \in Trackers :
        (bk[b].via = "timer" /\ bk[b].tracker = k) =>
          /\ (BkRules(b) /\ bk[b].ok /\ fwRules[k].present /\ fwRules[k].disabled) =>
               /\ bk'[b].trace = <<Call("rules", 0, TRUE), Call("patch-block", k, bk'[b].ok)>>
               /\ bk'[b].ok => ~fwRules'[k].disabled
          /\ BkBlocked(b) =>
               /\ \E okPatch \in BOOLEAN : bk[b].trace = BlockCalls(k, okPatch)
               /\ actionLog'[1] = [action |-> "timer-expired", kid |-> bk[b].kidName]]_vars

\* A fired timer has re-blocked the kid and is about to log 'timer-expired'.
C5_Witness ==
  \E b \in BkIds :
    /\ bk[b].via = "timer" /\ bk[b].pc = "unifi"
    /\ NoFailure(bk[b].trace)
    /\ ~fwRules[bk[b].tracker].disabled

\* C6: cancel-timer on a live timer clears the pending action for good,
\* removes the record and logs 'timer-cancel'; outside an active, not skipped
\* window it goes on to re-block: when its calls succeed the rule is blocked
\* when the request returns, and the 'timer-cancel' entry lies under the
\* 'timer-expired' entry of the block transition.
C6_CancelTimer ==
  [][/\ \A k \in Trackers :
        (CancelTimer(k) /\ LiveTimer(k)) =>
          /\ \A h \in timeouts' : h.id # activeTimers[k].timeoutId
          /\ ~HasTimer(k)'
          /\ \E i \in 1..Len(actionLog') :
               actionLog'[i] = [action |-> "timer-cancel", kid |-> activeTimers[k].kidName]
     /\ \A b \in BkIds, k \in Trackers :
        (bk[b].via = "cancel" /\ bk[b].tracker = k /\ bk[b].existing.timeoutId # Null) =>
          /\ \A h \in timeouts' : h.id # bk[b].existing.timeoutId
          /\ (BkReturns(b) /\ NoFailure(bk[b].trace) /\ fwRules'[k].present) =>
               ~fwRules'[k].disabled
          /\ BkBlocked(b) =>
               /\ actionLog'[1].action = "timer-expired"
               /\ actionLog'[2] = [action |-> "timer-cancel", kid |-> bk[b].existing.kidName]]_vars

\* A cancelled live timer: the kid's rule has been patched to blocking and
\* the request is about to log the block transition.
C6_Witness ==
  \E b \in BkIds :
    /\ bk[b].via = "cancel" /\ bk[b].pc = "unifi"
    /\ bk[b].existing.timeoutId # Null
    /\ NoFailure(bk[b].trace)
    /\ ~fwRules[bk[b].tracker].disabled

\* The run t of enforceSchedules returns in this step.
TickReturns(t) == tick[t].pc # "idle" /\ tick'[t].pc = "idle"

\* C7: when a tick that ran on its own returns and none of its calls failed,
\* every configured kid without a timer, with an enabled schedule and a rule
\* on the firewall is allowed exactly when its schedule is active and no skip
\* is active.
C7_TickReconciles ==
  [][\A t \in TickIds, k \in Configured :
       (/\ TickReturns(t) /\ NoFailure(tick[t].trace)
        /\ activeTimers'[k].timeoutId = Null
        /\ scheduleConfig'[k].enabled
        /\ fwRules'[k].present) =>
         (fwRules'[k].disabled <=>
            /\ computeScheduleInfo(k).active
            /\ ~(activeSkips'[k] # Null /\ now' < activeSkips'[k]))]_vars

\* Inside an active window with an active skip, a tick has patched the kid to
\* blocking and goes on to the kills.
C7_Witness ==
  \E t \in TickIds, k \in Configured :
    /\ tick[t].pc \in {"apply", "kill", "block"}
    /\ NoFailure(tick[t].trace)
    /\ \E i \in 1..Len(tick[t].trace) : tick[t].trace[i] = Call("patch-block", k, TRUE)
    /\ computeScheduleInfo(k).active /\ SkipActive(k)
    /\ ~HasTimer(k) /\ ~fwRules[k].disabled

\* C8: skip-next records the end of the current window when the schedule is
\* active, else the end of the next window when there is one; else it answers
\* 400, records no skip, logs nothing and starts no tick.
C8_SkipResolution ==
  [][\A k \in Trackers :
       SkipNext(k) =>
         LET info == computeScheduleInfo(k)
         IN IF info.active
            THEN activeSkips'[k] = info.windowEnd /\ reply' = Reply("skip-next", 200)
            ELSE IF info.nextEnd # Null
            THEN activeSkips'[k] = info.nextEnd /\ reply' = Reply("skip-next", 200)
            ELSE /\ reply' = Reply("skip-next", 400)
                 /\ UNCHANGED <<activeSkips, tick, actionLog, fwRules>>]_vars

\* A skip requested inside the window lasts until the window's end.
C8_Witness ==
  /\ reply = Reply("skip-next", 200)
  /\ \E k \in Configured :
       /\ computeScheduleInfo(k).active
       /\ activeSkips[k] = computeScheduleInfo(k).windowEnd
       /\ actionLog # <<>> /\ actionLog[1].action = "skip-next"

\* A rejected timed-allow request: the answer is 400 and nothing else changes.
TaRejected ==
  /\ reply' = Reply("timed-allow", 400)
  /\ UNCHANGED <<now, configVars, scheduleConfig, fwRules, unifiVars, timerVars,
                 activeSkips, actionLog, tick, ta, aat, bk>>

\* The raw value lies outside 1..120 or is not a number.
OutsideRange(raw) ==
  raw.nan \/ raw.whole < 1 \/ raw.whole > 120 \/ (raw.whole = 120 /\ raw.frac)

\* The raw value without its fraction lies outside 1..120, or it is not a number.
WholeOutsideRange(raw) == raw.nan \/ raw.whole < 1 \/ raw.whole > 120

\* C9 as stated: a timed-allow request whose minutes lie outside 1..120, or
\* are not a number, is rejected before any effect.
C9_RejectsOutsideRange ==
  [][\A k \in Trackers, raw \in RawMinutes :
       (TaStart(k, raw) /\ OutsideRange(raw)) => TaRejected]_vars

\* C9 amended: a timed-allow request whose minutes, cut to a whole number,
\* lie outside 1..120, or are not a number, is rejected before any effect: no
\* timer is cancelled or changed, no call is issued, nothing is logged.
C9_RejectsWholeOutsideRange ==
  [][\A k \in Trackers, raw \in RawMinutes :
       (TaStart(k, raw) /\ WholeOutsideRange(raw)) => TaRejected]_vars

\* A request was rejected while a timer is live, and the timer is still live.
C9_Witness ==
  /\ reply = Reply("timed-allow", 400)
  /\ AllIdle
  /\ \E k \in Configured : LiveTimer(k) /\ PendingFor(k) = {RecordedHandle(k)}

\* A run of enforceSchedules that starts now finds no kid to correct.
Settled == NextCorrection(1, fwRules) = 0

\* A run that starts where nothing is to correct issues no patch and no apply.
SettledRunIsQuiet ==
  \A t \in TickIds :
    (TickRules(t) /\ Settled) => (tick'[t] = IdleTick /\ fwRules' = fwRules)

\* C10 as stated: a tick that runs right after a tick, with nothing changed in
\* between, issues no rule patch and no apply.
C10_TickIdempotent ==
  [][/\ \A t \in TickIds : TickReturns(t) => Settled'
     /\ SettledRunIsQuiet]_vars

\* C10 amended: a tick that runs right after a tick none of whose calls
\* failed, with nothing changed in between, issues no rule patch and no apply.
C10_CleanTickIdempotent ==
  [][/\ \A t \in TickIds : (TickReturns(t) /\ NoFailure(tick[t].trace)) => Settled'
     /\ SettledRunIsQuiet]_vars

\* A tick has corrected a kid, and the next run is waiting for its rule list
\* with nothing left to correct.
C10_Witness ==
  /\ actionLog # <<>>
  /\ actionLog[1].action \in {"schedule-allow", "schedule-block"}
  /\ Settled
  /\ \E t \in TickIds : tick[t].pc = "rules" /\ tick[t].ok

\* The rule fetch of the run t failed.
FetchFailed(t) == tick[t].pc # "idle" /\ ~tick[t].trace[1].ok

\* C11: a tick whose rule fetch failed returns at once: it issues no rule
\* patch, no apply, no kill and no wireless command, and logs nothing.
C11_FetchFailureAbortsTick ==
  [][\A t \in TickIds :
       (FetchFailed(t) /\ tick'[t] # tick[t]) =>
         /\ tick'[t] = IdleTick
         /\ UNCHANGED <<fwRules, kidKnownMacs, kidBlockedMacs, actionLog>>]_vars

\* The rule fetch of a tick has failed while a kid's rule is to be corrected.
C11_Witness ==
  \E t \in TickIds : FetchFailed(t) /\ tick[t].pc = "rules" /\ ~Settled

\* The number of calls in `trace` whose operation is in `ops`.
CountCalls(trace, ops) == Cardinality({i \in 1..Len(trace) : trace[i].op \in ops})

\* C12: a tick that returns has fetched the rule list once and has issued one
\* apply when it issued one or more rule patches, and none when it issued none.
C12_OneApplyPerTick ==
  [][\A t \in TickIds :
       TickReturns(t) =>
         /\ CountCalls(tick[t].trace, {"rules"}) = 1
         /\ CountCalls(tick[t].trace, {"apply"}) =
              (IF CountCalls(tick[t].trace, {"patch-allow", "patch-block"}) > 0 THEN 1 ELSE 0)]_vars

\* A tick has patched the rules of two kids and issued its one apply.
C12_Witness ==
  \E t \in TickIds :
    /\ tick[t].pc = "apply"
    /\ CountCalls(tick[t].trace, {"patch-allow", "patch-block"}) > 1
    /\ CountCalls(tick[t].trace, {"apply"}) = 1

\* The tracker of the kid an audit entry names, or 0.
TrackerNamed(name) ==
  IF \E i \in KidIndexes : homeRules[i].name = name
  THEN homeRules[CHOOSE i \in KidIndexes : homeRules[i].name = name].tracker
  ELSE 0

\* C13: a tick that runs on its own issues no rule patch, no notification, no
\* kill and no wireless command for a kid whose schedule is disabled, logs no
\* transition for it and leaves its rule as it is, whatever skip is recorded.
C13_DisabledScheduleIsInert ==
  [][\A t \in TickIds :
       /\ \A c \in TickNewCalls(t) :
            c.op \in ActsOnKid \cup {"notify"} => scheduleConfig[c.kid].enabled
       /\ \A k \in Configured :
            (tick[t].pc # "idle" /\ tick'[t] # tick[t] /\ ~scheduleConfig[k].enabled) =>
              /\ fwRules'[k] = fwRules[k]
              /\ kidBlockedMacs'[k] = kidBlockedMacs[k]
              /\ (actionLog' # actionLog => TrackerNamed(actionLog'[1].kid) # k)]_vars

\* A tick corrects one kid while the other kid, whose schedule is disabled,
\* has a skip recorded and is passed over.
C13_Witness ==
  \E t \in TickIds, k \in Configured :
    /\ tick[t].pc = "apply"
    /\ ~scheduleConfig[k].enabled
    /\ activeSkips[k] # Null
    /\ \A i \in 1..Len(tick[t].trace) : tick[t].trace[i].kid # k
    /\ CountCalls(tick[t].trace, {"patch-allow", "patch-block"}) = 1

\* The windows of `config` that contain the instant t.
WindowsAt(config, t) ==
  {i \in 1..Len(config.windows) :
     /\ Weekday(t) \in config.windows[i].days
     /\ config.windows[i].start[1] * 60 + config.windows[i].start[2] <= MinuteOfDay(t)
     /\ MinuteOfDay(t) < config.windows[i].end[1] * 60 + config.windows[i].end[2]}

\* The ends, today, of the windows of `config` that contain t.
EndsAt(config, t) ==
  {(t - (t % MinutesPerDay)) + config.windows[i].end[1] * 60 + config.windows[i].end[2] :
     i \in WindowsAt(config, t)}

\* Monday 00:00
Monday == MinutesPerDay

\* C14: for an enabled config the listed schedule is active exactly when some
\* window contains today's weekday and the minute of the day, and the window
\* end listed is then the latest end, today, among those windows; the window
\* Monday 08:00-17:00 is active until 17:00 at Monday 10:00 and, at Monday
\* 07:00, is not active and starts next at Monday 08:00.
C14_EvaluatorActive ==
  (reply.op = "home-rules" /\ reply.status = 200) =>
    \A i \in KidIndexes :
      LET config == scheduleConfig[homeRules[i].tracker]
          entry == reply.rules[i]
      IN config.enabled =>
           /\ entry.scheduleActive <=> WindowsAt(config, now) # {}
           /\ entry.scheduleActive =>
                /\ entry.scheduleWindowEnd \in EndsAt(config, now)
                /\ \A e \in EndsAt(config, now) : e <= entry.scheduleWindowEnd
           /\ (config.windows = <<WinA>> /\ now = Monday + 10 * 60) =>
                (entry.scheduleActive /\ entry.scheduleWindowEnd = Monday + 17 * 60)
           /\ (config.windows = <<WinA>> /\ now = Monday + 7 * 60) =>
                (~entry.scheduleActive /\ entry.scheduleNextStart = Monday + 8 * 60)

\* Monday 16:30 lies in two overlapping windows, listed with the later end.
C14_Witness ==
  /\ reply.op = "home-rules" /\ reply.status = 200
  /\ now = Monday + 16 * 60 + 30
  /\ scheduleConfig[KidA.tracker] = [enabled |-> TRUE, windows |-> <<WinB, WinA>>]
  /\ reply.rules[1].scheduleActive
  /\ reply.rules[1].scheduleWindowEnd = Monday + 20 * 60

\* The window starts of `config` on today and the six days after it that lie
\* after t, as pairs <<days from today, window>>.
UpcomingStarts(config, t) ==
  {p \in (0..6) \X (1..Len(config.windows)) :
     /\ ((t \div MinutesPerDay) + p[1]) % 7 \in config.windows[p[2]].days
     /\ (t - (t % MinutesPerDay)) + p[1] * MinutesPerDay
          + config.windows[p[2]].start[1] * 60 + config.windows[p[2]].start[2] > t}

StartOf(config, t, p) ==
  (t - (t % MinutesPerDay)) + p[1] * MinutesPerDay
    + config.windows[p[2]].start[1] * 60 + config.windows[p[2]].start[2]

EndOf(config, t, p) ==
  (t - (t % MinutesPerDay)) + p[1] * MinutesPerDay
    + config.windows[p[2]].end[1] * 60 + config.windows[p[2]].end[2]

\* C15: for an enabled config that is not active now, the next start listed is
\* the earliest start after now of any window on today or the six days after
\* it, and the next end listed is the end of that window on that day; both
\* are null exactly when no window starts in those seven days.
C15_EvaluatorNext ==
  (reply.op = "home-rules" /\ reply.status = 200) =>
    \A i \in KidIndexes :
      LET config == scheduleConfig[homeRules[i].tracker]
          entry == reply.rules[i]
          upcoming == UpcomingStarts(config, now)
      IN (config.enabled /\ ~entry.scheduleActive) =>
           IF upcoming = {}
           THEN entry.scheduleNextStart = Null /\ entry.scheduleNextEnd = Null
           ELSE /\ \E p \in upcoming :
                     /\ entry.scheduleNextStart = StartOf(config, now, p)
                     /\ entry.scheduleNextEnd = EndOf(config, now, p)
                /\ \A p \in upcoming : entry.scheduleNextStart <= StartOf(config, now, p)

\* At Monday 07:00 the window that starts at 07:30 is listed as the next one,
\* before the window that starts at 08:00.
C15_Witness ==
  /\ reply.op = "home-rules" /\ reply.status = 200
  /\ now = Monday + 7 * 60
  /\ scheduleConfig[KidA.tracker] = [enabled |-> TRUE, windows |-> <<WinA, WinC>>]
  /\ reply.rules[1].scheduleNextStart = Monday + 7 * 60 + 30
  /\ reply.rules[1].scheduleNextEnd = Monday + 8 * 60 + 30

\* The task has just issued the call `op`: the last entry its record of calls gained.
Issued(rec, next, op) ==
  /\ next.pc # "idle"
  /\ Len(next.trace) > Len(rec.trace)
  /\ next.trace[Len(next.trace)].op = op

\* The wireless calls of kind `op` issued in a step.
WifiCalls(op) ==
  {tick'[t].wifi : t \in {u \in TickIds : Issued(tick[u], tick'[u], op)}}
    \cup {ta'[j].wifi : j \in {u \in TaIds : Issued(ta[u], ta'[u], op)}}
    \cup {bk'[b].wifi : b \in {u \in BkIds : Issued(bk[u], bk'[u], op)}}
    \cup (IF Issued(aat, aat', op) THEN {aat'.wifi} ELSE {})
    \cup (IF Issued(manual, manual', op) THEN {manual'.wifi} ELSE {})

\* C16: no operation removes an identifier from a subject's KnownDeviceSet: in
\* every step each subject's set of known MACs is a superset of what it was.
C16_KnownMacsMonotonic ==
  [][\A k \in Trackers : kidKnownMacs[k] \subseteq kidKnownMacs'[k]]_vars

\* A block has learned the online device of a kid whose stored set held the
\* offline one, which is still there.
C16_Witness ==
  \E k \in Configured :
    /\ OfflineMac(k) \in kidKnownMacs[k]
    /\ ClientMac(10 + k) \in kidKnownMacs[k]
    /\ kidBlockedMacs[k] # {}

\* C17: whenever the wireless controller is configured, every call of
\* unifiBlockKid sends a block command for every MAC of the kid's known set
\* that is not excluded, offline devices included.
C17_BlockCoversKnownMacs ==
  [][\A w \in WifiCalls("unifi-block") :
       unifiUrl => (kidKnownMacs'[w.kid] \ unifiExcludedMacs) \subseteq w.macs]_vars

\* C18: after every block action the kid's blocked MACs are exactly those whose
\* block command succeeded in it, also when none succeeded.
C18_BlockedIsSucceeded ==
  [][\A w \in WifiCalls("unifi-block") : kidBlockedMacs'[w.kid] = w.done]_vars

\* C18, as the code has it: after a block action in which at least one block
\* command succeeded the kid's blocked MACs are exactly those that succeeded;
\* after one in which none succeeded they are what they were.
C18_BlockedIsSucceededIfAny ==
  [][\A w \in WifiCalls("unifi-block") :
       kidBlockedMacs'[w.kid] = IF w.done # {} THEN w.done ELSE kidBlockedMacs[w.kid]]_vars

\* A block action whose commands all failed has left an earlier blocked set in place.
C18_Witness ==
  \E t \in TickIds :
    /\ tick[t].pc = "block"
    /\ tick[t].wifi.macs # {} /\ tick[t].wifi.done = {}
    /\ kidBlockedMacs[tick[t].wifi.kid] # {}

C20_ExcludedMacsUntouched ==
  [][/\ \A w \in WifiCalls("unifi-block") \cup WifiCalls("unifi-unblock") :
          w.macs \cap unifiExcludedMacs = {}
     /\ \A k \in Trackers :
          (kidKnownMacs'[k] \ kidKnownMacs[k]) \cap unifiExcludedMacs = {}]_vars

\* C21: a toggle of a kid whose rule is allowed patches the rule to blocking,
\* then applies, then kills the kid's connections, then runs the wireless
\* block, and logs one entry, 'toggle-block', when it answers; when the PATCH
\* fails it answers 500 with no later call and no entry.
C21_ToggleToBlocked ==
  [][\A k \in Trackers :
       (manual.op = "toggle" /\ manual.tracker = k /\ blockEnabled(manual)) =>
         /\ (ToggleRules /\ manual.ok /\ manual.rule.present) =>
              /\ manual'.trace = <<Call("rules", 0, TRUE), Call("patch-block", k, manual'.ok)>>
              /\ manual'.ok => ~fwRules'[k].disabled
         /\ (TogglePatched /\ ~manual.ok) =>
              /\ manual' = IdleManual /\ reply' = Reply("toggle", 500)
              /\ manual.trace = <<Call("rules", 0, TRUE), Call("patch-block", k, FALSE)>>
         /\ ToggleDone =>
              /\ manual.trace = BlockCalls(k, TRUE)
              /\ actionLog' = <<[action |-> "toggle-block", kid |-> ConfigRule(k).name]>> \o actionLog
              /\ reply' = Reply("toggle", 200)
         /\ ~ToggleDone => actionLog' = actionLog]_vars

\* A toggle has blocked a kid whose rule was allowed and has logged it.
C21_Witness ==
  /\ AllIdle
  /\ reply = Reply("toggle", 200)
  /\ Len(actionLog) >= 1 /\ actionLog[1].action = "toggle-block"
  /\ \E k \in Configured : ~fwRules[k].disabled /\ kidBlockedMacs[k] # {}

\* C24: the audit log never holds more than 1000 entries; a logged entry is at
\* the front, the entries before it follow in their order, and at the cap
\* only the last, oldest one is dropped.
C24_LogBoundedNewestFirst ==
  [][/\ Len(actionLog') <= LogCap
     /\ \A action \in LoggedActions, kid \in LoggedKids :
         LogAny(action, kid) =>
           /\ actionLog'[1] = [action |-> action, kid |-> kid]
           /\ Len(actionLog') = IF Len(actionLog) < LogCap THEN Len(actionLog) + 1 ELSE LogCap
           /\ \A i \in 2..Len(actionLog') : actionLog'[i] = actionLog[i - 1]]_vars

\* An entry was logged at the cap: the oldest entry is gone, the one before it is last.
C24_Witness ==
  /\ Len(actionLog) = LogCap
  /\ actionLog[1].action = "toggle-block"
  /\ actionLog[LogCap] = OldEntry

Patches == {"patch-allow", "patch-block"}

\* C25: in a tick the apply, the connection kills, the wireless blocks and
\* the wireless unblocks all come after the last rule patch, and the kills,
\* blocks and unblocks after the apply.
C25_SideEffectsAfterApply ==
  \A t \in TickIds : \A i \in 1..Len(tick[t].trace) :
    LET trace == tick[t].trace
    IN /\ trace[i].op \in {"apply", "kill", "unifi-block", "unifi-unblock"} =>
            \A j \in (i + 1)..Len(trace) : trace[j].op \notin Patches
       /\ trace[i].op \in {"kill", "unifi-block", "unifi-unblock"} =>
            \E j \in 1..(i - 1) : trace[j].op = "apply"

\* C25, as the code has it: in a tick the apply, the connection kills and the
\* wireless blocks come after the last rule patch, and the kills and blocks
\* after the apply, each kid's block right after its kill; the wireless
\* unblock of a kid that became allowed is issued inside the loop, right after
\* the kid's patch and its notification, before the apply.
C25_BlockSideEffectsAfterApply ==
  \A t \in TickIds : \A i \in 1..Len(tick[t].trace) :
    LET trace == tick[t].trace
    IN /\ trace[i].op \in {"apply", "kill", "unifi-block"} =>
            \A j \in (i + 1)..Len(trace) : trace[j].op \notin Patches
       /\ trace[i].op \in {"kill", "unifi-block"} =>
            \E j \in 1..(i - 1) : trace[j].op = "apply"
       /\ trace[i].op = "unifi-block" =>
            trace[i - 1] = Call("kill", trace[i].kid, TRUE)
       /\ trace[i].op = "unifi-unblock" =>
            /\ \A j \in 1..i : trace[j].op # "apply"
            /\ trace[i - 1] = Call("notify", trace[i].kid, TRUE)
            /\ trace[i - 2].op = "patch-allow" /\ trace[i - 2].kid = trace[i].kid

\* A tick has allowed one kid, unblocked its devices, patched the other kid to
\* blocking, applied, and killed the other kid's connections.
C25_Witness ==
  \E t \in TickIds :
    /\ tick[t].pc = "block"
    /\ \E i, j \in 1..Len(tick[t].trace) :
         /\ i < j
         /\ tick[t].trace[i].op = "unifi-unblock"
         /\ tick[t].trace[j].op = "patch-block"

\* The tick's PATCH of the kid's rule failed.
PatchFailed(trace, tracker) ==
  \E i \in 1..Len(trace) : trace[i].op \in Patches /\ trace[i].kid = tracker /\ ~trace[i].ok

\* C26: when a rule patch of a tick fails, no transition is logged for the
\* kid, no notification is sent, no wireless unblock, kill or wireless block
\* is run for it, and an apply is issued only when some patch succeeded.
C26_FailedPatchAbortsKid ==
  [][\A t \in TickIds :
       /\ (tick[t].pc = "patch" /\ ~tick[t].ok /\ tick'[t] # tick[t]) =>
            actionLog' = actionLog
       /\ \A c \in TickNewCalls(t) :
            /\ c.op \in {"notify", "kill", "unifi-block", "unifi-unblock"} =>
                 ~PatchFailed(tick'[t].trace, c.kid)
            /\ c.op = "apply" =>
                 \E i \in 1..Len(tick'[t].trace) :
                   tick'[t].trace[i].op \in Patches /\ tick'[t].trace[i].ok]_vars

HasCall(trace, op, tracker) ==
  \E i \in 1..Len(trace) : trace[i].op = op /\ trace[i].kid = tracker

\* C27: a tick whose rule fetch succeeded returns only after every kid that was
\* to be corrected got its rule patch and its side effects (when allowed: the
\* notification and the wireless unblock; when blocked: the notification, the
\* kill and the wireless block, after an apply), whichever calls failed for
\* other kids or for the kid itself.
C27_FailureKeepsBatch ==
  [][\A t \in TickIds, k \in Configured :
       (TickReturns(t) /\ ~FetchFailed(t) /\ NeedsCorrection(k, tick[t].allRules)) =>
         LET trace == tick[t].trace
         IN /\ HasCall(trace, "notify", k)
            /\ HasCall(trace, "apply", 0)
            /\ IF shouldBeAllowed(k)
               THEN HasCall(trace, "patch-allow", k) /\ HasCall(trace, "unifi-unblock", k)
               ELSE /\ HasCall(trace, "patch-block", k)
                    /\ HasCall(trace, "kill", k) /\ HasCall(trace, "unifi-block", k)]_vars

\* The PATCH of the first kid failed and none of its block commands
\* succeeded; the tick has patched the second kid and blocked its device.
C27_Witness ==
  \E t \in TickIds :
    /\ tick[t].pc = "block"
    /\ PatchFailed(tick[t].trace, KidA.tracker)
    /\ kidKnownMacs[KidA.tracker] # {} /\ kidBlockedMacs[KidA.tracker] = {}
    /\ tick[t].wifi.kid = KidB.tracker
    /\ ~fwRules[KidB.tracker].disabled
    /\ kidBlockedMacs[KidB.tracker] # {}

\* A run of enforceSchedules starts in this step.
TickStarts(t) == tick[t].pc = "idle" /\ tick'[t].pc = "rules"

\* C28: the step that starts a tick, whether its rule fetch then fails or not,
\* removes every skip with now >= until and keeps every skip with now < until
\* before the fetch, the tick's first call; and a tick blocks a kid inside an
\* active window only for a skip that has not expired.
C28_SkipExpiryFirst ==
  [][\A t \in TickIds :
       /\ TickStarts(t) =>
            /\ tick'[t].trace = <<Call("rules", 0, tick'[t].ok)>>
            /\ \A k \in Trackers :
                 /\ activeSkips'[k] # Null => now < activeSkips'[k]
                 /\ (activeSkips[k] # Null /\ now < activeSkips[k]
                       /\ ~SkipNext(k) /\ ~CancelSkip(k)) =>
                      activeSkips'[k] = activeSkips[k]
       /\ \A c \in TickNewCalls(t) :
            (c.op = "patch-block" /\ computeScheduleInfo(c.kid).active) =>
              (activeSkips[c.kid] # Null /\ now < activeSkips[c.kid])]_vars

\* A skip was requested and never cancelled, its end has come, and a tick
\* whose rule fetch failed has started: the skip is gone.
C28_Witness ==
  \E t \in TickIds, k \in Configured :
    /\ tick[t].pc = "rules" /\ ~tick[t].ok
    /\ now = Horizon
    /\ activeSkips[k] = Null
    /\ Len(actionLog) = 1
    /\ actionLog[1] = [action |-> "skip-next", kid |-> ConfigRule(k).name]

\* The request answered in this step is a successful schedule save, schedule
\* toggle, enable-all, disable-all, skip-next or cancel-skip.
TriggeringRequest ==
  \/ \E k \in Trackers : SkipNext(k) /\ reply' = Reply("skip-next", 200)
  \/ \E k \in Trackers : CancelSkip(k)
  \/ \E k \in Trackers : ToggleSchedule(k)
  \/ \E incoming \in Incoming : SaveSchedules(incoming, TRUE)
  \/ DisableAll
  \/ EnableAll

\* C29: a successful schedule save, schedule toggle, enable-all, disable-all,
\* skip-next or cancel-skip starts one tick in the step in which it answers;
\* the tick a skip-next starts inside an active window for an allowed kid
\* leaves the kid blocked when none of its calls failed.
C29_TriggersTick ==
  [][/\ TriggeringRequest =>
         /\ Cardinality({t \in TickIds : TickStarts(t)}) = 1
         /\ reply'.status = 200
     /\ \A t \in TickIds, k \in Configured :
         (/\ TickReturns(t) /\ NoFailure(tick[t].trace)
          /\ reply = Reply("skip-next", 200)
          /\ computeScheduleInfo(k).active /\ SkipActive(k)
          /\ ~HasTimer(k) /\ fwRules[k].present) =>
           ~fwRules'[k].disabled]_vars

\* A skip-next inside the window has started a tick that blocked the allowed kid.
C29_Witness ==
  /\ AllIdle
  /\ reply = Reply("skip-next", 200)
  /\ Len(actionLog) = 2
  /\ actionLog[1].action = "schedule-block" /\ actionLog[2].action = "skip-next"
  /\ \E k \in Configured :
       computeScheduleInfo(k).active /\ SkipActive(k) /\ ~fwRules[k].disabled

\* C30: cancel-timer for a kid without a timer and cancel-skip for a kid
\* without a skip issue no rule PATCH of their own and leave the kid's rule,
\* MAC sets, timers and skip unchanged.
C30_CancelOnlyRemovesRecord ==
  [][/\ \A k \in Configured :
         (CancelSkip(k) /\ activeSkips[k] = Null) =>
           /\ fwRules' = fwRules
           /\ UNCHANGED <<unifiVars, timerVars>>
           /\ activeSkips'[k] = Null
     /\ \A k \in Configured :
         (CancelTimer(k) /\ ~HasTimer(k)) =>
           UNCHANGED <<fwRules, unifiVars, timerVars, activeSkips>>
     /\ \A b \in BkIds :
         (bk[b].via = "cancel" /\ bk[b].existing = NoTimer /\ BkStep(b)) =>
           /\ bk'[b].pc # "patch"
           /\ UNCHANGED <<fwRules, unifiVars, timerVars, activeSkips>>]_vars

\* Two or more ticks are under way.
Overlap == Cardinality({t \in TickIds : tick[t].pc # "idle"}) >= 2

\* C23: when the last of the ticks under way returns, every configured kid
\* without a timer, with an enabled schedule and a rule on the firewall is
\* allowed exactly when its schedule is active and no skip is active.
C23_OverlapReconciles ==
  [][\A t \in TickIds, k \in Configured :
       (/\ TickReturns(t) /\ AllIdle'
        /\ ~HasTimer(k)'
        /\ scheduleConfig'[k].enabled
        /\ fwRules'[k].present) =>
         (fwRules'[k].disabled <=>
            /\ computeScheduleInfo(k).active
            /\ ~(activeSkips'[k] # Null /\ now' < activeSkips'[k]))]_vars

\* Two overlapping ticks have both corrected the same kid and have returned.
C23_Witness ==
  /\ AllIdle
  /\ Len(actionLog) >= 2
  /\ actionLog[1] = actionLog[2]
  /\ actionLog[1].action \in {"schedule-allow", "schedule-block"}
  /\ \A k \in Configured : fwRules[k].disabled <=> shouldBeAllowed(k)

\* Every configured kid without a timer whose rule is on the firewall is
\* allowed exactly inside an active window of its enabled schedule that is
\* not skipped.
Converged ==
  \A k \in Configured :
    (~HasTimer(k) /\ fwRules[k].present) => (fwRules[k].disabled <=> InScheduleWindow(k))

\* The same for the kids whose schedule is enabled.
ConvergedEnabled ==
  \A k \in Configured :
    (~HasTimer(k) /\ fwRules[k].present /\ scheduleConfig[k].enabled) =>
      (fwRules[k].disabled <=> InScheduleWindow(k))

\* Once pfSense answers again, the ticks bring every kid whose schedule is
\* enabled to its desired state for good.
EnabledKidsConverge == <>[](faults \/ ConvergedEnabled)

\* C22: once pfSense answers again, the ticks bring every kid without a timer
\* to its desired state for good; a kid whose timed grant has ended outside a
\* window ends up blocked.
C22_EventuallyConverges == <>[](faults \/ Converged)

\* C31: whenever no request, tick or timer callback is under way, activeTimers
\* holds a record for a kid exactly when a timeout that has not fired and was
\* not cleared is pending for the kid.
C31_RecordIffPendingAction ==
  AllIdle => \A k \in Trackers : HasTimer(k) <=> PendingFor(k) # {}

\* C32: the blocked MACs of a kid are among the kid's known MACs, and none of
\* them is on the exclusion list.
C32_BlockedWithinKnown ==
  \A k \in Trackers :
    /\ kidBlockedMacs[k] \subseteq kidKnownMacs[k]
    /\ kidBlockedMacs[k] \cap unifiExcludedMacs = {}

\* A block has stored the blocked MACs of a kid whose known MACs hold an
\* excluded one.
C32_Witness ==
  /\ AllIdle
  /\ \E k \in Configured :
       /\ kidBlockedMacs[k] # {}
       /\ kidKnownMacs[k] \cap unifiExcludedMacs # {}
       /\ kidBlockedMacs[k] # kidKnownMacs[k] \ unifiExcludedMacs

\* A step of a toggle, allow-all or block-all request.
ManualStep ==
  \/ \E k \in Trackers : ToggleStart(k)
  \/ ToggleStep
  \/ AllowAllStart
  \/ AllowAllStep
  \/ BlockAllStart
  \/ BlockAllStep

\* C33: no step of a toggle, allow-all or block-all request changes a timer
\* record, a pending timeout, a skip or the schedule configuration.
C33_ManualFrame ==
  [][ManualStep => UNCHANGED <<activeTimers, timeouts, activeSkips, scheduleConfig>>]_vars

\* A toggle has blocked a kid whose timer is live, and has answered.
C33_Witness ==
  /\ AllIdle
  /\ reply = Reply("toggle", 200)
  /\ actionLog[1].action = "toggle-block"
  /\ \E k \in Configured : LiveTimer(k) /\ ~fwRules[k].disabled

\* The request d has issued a PATCH of the alias.
DevPatchIssued(d) ==
  \E i \in 1..Len(dev[d].trace) : dev[d].trace[i].op = "patch-alias"

C35_EvaluatorWellFormed ==
  (reply.op = "home-rules" /\ reply.status = 200) =>
    \A i \in KidIndexes :
      LET config == scheduleConfig[homeRules[i].tracker]
          entry == reply.rules[i]
      IN /\ entry.scheduleActive =>
              /\ entry.scheduleWindowEnd # Null /\ entry.scheduleWindowEnd > now
              /\ entry.scheduleNextStart = Null /\ entry.scheduleNextEnd = Null
         /\ ~entry.scheduleActive => entry.scheduleWindowEnd = Null
         /\ entry.scheduleNextStart # Null =>
              /\ entry.scheduleNextStart > now
              /\ entry.scheduleNextEnd # Null
              /\ entry.scheduleNextEnd > entry.scheduleNextStart
         /\ (~config.enabled \/ config.windows = <<>>) =>
              /\ ~entry.scheduleActive
              /\ entry.scheduleWindowEnd = Null
              /\ entry.scheduleNextStart = Null /\ entry.scheduleNextEnd = Null

\* Monday 20:00, at the end of the window of Monday and Wednesday: the answer
\* names Wednesday's window.
C35_Witness ==
  /\ reply.op = "home-rules" /\ reply.status = 200
  /\ now = Monday + 20 * 60
  /\ scheduleConfig[KidA.tracker] = [enabled |-> TRUE, windows |-> <<WinB>>]
  /\ ~reply.rules[1].scheduleActive
  /\ reply.rules[1].scheduleNextStart = Monday + 2 * MinutesPerDay + 16 * 60
  /\ reply.rules[1].scheduleNextEnd = Monday + 2 * MinutesPerDay + 20 * 60

\* The URLs that contain '/api/'.
ApiUrls == {UrlApiRules, UrlNested}

\* C36: the service worker answers no request whose URL contains '/api/' and
\* stores no response to one; any other request it answers from the network
\* when the fetch succeeds, and from the cache only when the fetch has failed.
C36_ApiNeverCached ==
  [][/\ cache' \cap ApiUrls = {}
     /\ \A f \in FetchIds : fetchEvents'[f].url \notin ApiUrls
     /\ \A url \in ApiUrls : FetchEvent(url) => swAnswer' = Answer(url, "browser")
     /\ \A f \in FetchIds :
          (NetworkDone(f) /\ fetchEvents[f].ok) =>
            swAnswer' = Answer(fetchEvents[f].url, "network")
     /\ \A f \in FetchIds :
          (CacheMatch(f) /\ swAnswer'.by = "cache") =>
            /\ ~fetchEvents[f].ok
            /\ swAnswer'.url = fetchEvents[f].url
            /\ swAnswer'.url \in cache
     /\ (swAnswer' # swAnswer /\ swAnswer'.by \in {"cache", "none"}) =>
          \E f \in FetchIds : CacheMatch(f) /\ ~fetchEvents[f].ok]_vars

\* A page was answered from the cache, which holds the response to '/api',
\* a URL without '/api/'.
C36_Witness ==
  /\ swAnswer = Answer(UrlLog, "cache")
  /\ UrlApiBare \in cache
  /\ \A f \in FetchIds : fetchEvents[f].pc = "idle"

====
